---- MODULE Spec2Model ----
(***************************************************************************)
(* Model of the purchase-creation workflow of dataor-back:                 *)
(* PurchaseService.createPurchase and its helpers, the catalogue           *)
(* operations of ProductService, the readers of the purchase store and     *)
(* the payment-status reconciliation.                                      *)
(*                                                                         *)
(* Encoding.  A text value is a sequence of one-character strings          *)
(* ("a@b.c" is <<"a","@","b",".","c">>), so that trimming, length and the  *)
(* e-mail pattern are computed and not assumed.  Money is counted in       *)
(* hundredths of a peso (DECIMAL(10,2) columns hold exactly such values);  *)
(* Purchase.amount, an INTEGER column of whole pesos, is kept in pesos.    *)
(* A gateway transaction id is a positive number; 0 stands for the empty   *)
(* string and for NULL.                                                    *)
(***************************************************************************)
EXTENDS Integers, Sequences, FiniteSets, TLC

VARIABLES
    products,       \* table products (committed; catalogue writes autocommit)
    purchases,      \* table purchases, committed rows
    orderDetails,   \* table order_details, committed rows
    seqPurchase,    \* SERIAL purchases.id (a sequence is not rolled back)
    seqDetail,      \* SERIAL order_details.id
    tx,             \* per caller: rows written inside its open $transaction
    gateway,        \* payment transactions that exist at the payment gateway
    call,           \* per caller: the createPurchase invocation in progress
    cartSize,       \* history: purchase id -> number of cart items of its request
    catalogOps,     \* number of catalogue mutations performed
    soldThenEdited, \* a catalogue mutation ran while order lines existed
    reader,         \* a getPurchasesByEmail / getAllPurchases in progress
    recon,          \* an updatePaymentStatus in progress
    recons,         \* number of updatePaymentStatus invocations started
    edit,           \* an updatePurchase in progress
    edits,          \* number of updatePurchase invocations started
    clients,        \* table clients (every statement autocommits)
    seqClient,      \* SERIAL clients.id
    clientCall,     \* per caller: the ClientService invocation in progress
    clientOps,      \* number of ClientService invocations started
    quotes,         \* table quotes
    seqQuote,       \* SERIAL quotes.id
    quoteCall,      \* the QuoteService invocation in progress
    quoteOps,       \* number of QuoteService invocations started
    vreq,           \* validation harness: the request under test
    vres            \* validation harness: the verdict of validatePurchaseRequest

vars == <<products, purchases, orderDetails, seqPurchase, seqDetail, tx, gateway,
          call, cartSize, catalogOps, soldThenEdited, reader, recon, recons, edit, edits,
          clients, seqClient, clientCall, clientOps, quotes, seqQuote, quoteCall, quoteOps,
          vreq, vres>>

-----------------------------------------------------------------------------
(* Bounds of the model *)

MaxCartLen == 2
MaxCatalogOps == 1
MaxRecons == 2
MaxEdits == 1
MaxClientOps == 3
MaxQuoteOps == 3
MaxEmailLen == 5
MaxColorLen == 3
MaxMessageLen == 3

(* Program constants *)

MinNameLen == 2
MinIdentificationLen == 6
MinContactLen == 10

Callers == {"c1", "c2"}

-----------------------------------------------------------------------------
(* Text *)

RECURSIVE Repeat(_, _)
Repeat(ch, n) == IF n = 0 THEN <<>> ELSE <<ch>> \o Repeat(ch, n - 1)

IsSpace(ch) == ch = " "

RECURSIVE TrimLeft(_)
TrimLeft(s) == IF s # <<>> /\ IsSpace(Head(s)) THEN TrimLeft(Tail(s)) ELSE s

RECURSIVE TrimRight(_)
TrimRight(s) ==
    IF s # <<>> /\ IsSpace(s[Len(s)]) THEN TrimRight(SubSeq(s, 1, Len(s) - 1)) ELSE s

\* String.prototype.trim
trim(s) == TrimRight(TrimLeft(s))

\* one character of the class [^\s@]
NotSpaceNorAt(ch) == ~IsSpace(ch) /\ ch # "@"

\* a looser test: some "@" with text on both sides
emailRegexTestLoose(s) == \E i \in 2..(Len(s) - 1) : s[i] = "@"

\* /^[^\s@]+@[^\s@]+\.[^\s@]+$/.test(s): s splits as A @ B . C with A, B, C
\* non-empty runs of [^\s@]
emailRegexTest(s) ==
    \E i \in 1..Len(s) : \E j \in 1..Len(s) :
        /\ s[i] = "@"
        /\ s[j] = "."
        /\ 1 < i
        /\ i + 1 < j
        /\ j < Len(s)
        /\ \A k \in (1..Len(s)) \ {i} : NotSpaceNorAt(s[k])

ToUpperChar(ch) ==
    CASE ch = "a"  -> "A"
      [] ch = "a'" -> "A'"
      [] ch = "z"  -> "Z"
      [] OTHER     -> ch

\* normalize('NFD') followed by the removal of U+0300..U+036F: an accented
\* letter ("a'" is a-acute, "A'" is A-acute) loses its accent
StripAccentChar(ch) ==
    CASE ch = "a'" -> "a"
      [] ch = "A'" -> "A"
      [] OTHER     -> ch

\* a normalisation that keeps the accents
normalizeColorKeepAccents(color) ==
    LET t == trim(color)
    IN  [k \in 1..Len(t) |-> ToUpperChar(t[k])]

\* normalizeColor: trim, upper-case, strip diacritics
normalizeColor(color) ==
    LET t == trim(color)
    IN  [k \in 1..Len(t) |-> StripAccentChar(ToUpperChar(t[k]))]

\* normalizeColors of ProductService
normalizeColors(colors) == [k \in 1..Len(colors) |-> normalizeColor(colors[k])]

-----------------------------------------------------------------------------
(* Errors *)

NoError == [type |-> "none", message |-> ""]

ValidationError(message) == [type |-> "ValidationError", message |-> message]

\* an error thrown by the store client or by the gateway client
InfraError(message) == [type |-> "Error", message |-> message]

ErrEmptyCart == ValidationError("At least one item is required")
ErrEmail == ValidationError("Invalid email format")
ErrName == ValidationError("Buyer name must be at least 2 characters long")
ErrIdentification ==
    ValidationError("Identification number must be at least 6 characters long")
ErrContact == ValidationError("Contact number must be at least 10 characters long")
ErrQuantity == ValidationError("Quantity must be greater than 0 for product")
ErrNotFound == ValidationError("Product not found")
ErrNotAvailable == ValidationError("Product is not available")
ErrColor == ValidationError("Color not available")

ErrPurchaseCreate == InfraError("purchase.create failed")
ErrOrderDetailCreate == InfraError("orderDetail.create failed")
ErrGateway == InfraError("createPayment failed")
ErrPurchaseUpdate == InfraError("purchase.update failed")
ErrCommit == InfraError("commit failed")

-----------------------------------------------------------------------------
(* Requests *)

NoColor == <<>>          \* selectedColor undefined (or '': both are falsy)

Item(productId, quantity, selectedColor) ==
    [productId |-> productId, quantity |-> quantity, selectedColor |-> selectedColor]

\* validatePurchaseRequest without its last rule (the contact number)
validatePurchaseRequestWeak(request) ==
    IF Len(request.items) = 0 THEN ErrEmptyCart
    ELSE IF ~emailRegexTest(request.buyerEmail) THEN ErrEmail
    ELSE IF Len(trim(request.buyerName)) < MinNameLen THEN ErrName
    ELSE IF Len(request.buyerIdentificationNumber) < MinIdentificationLen
         THEN ErrIdentification
    ELSE NoError

\* PurchaseService.validatePurchaseRequest: the error it throws, or NoError
validatePurchaseRequest(request) ==
    IF Len(request.items) = 0 THEN ErrEmptyCart
    ELSE IF ~emailRegexTest(request.buyerEmail) THEN ErrEmail
    ELSE IF request.buyerName = <<>> \/ Len(trim(request.buyerName)) < MinNameLen
         THEN ErrName
    ELSE IF request.buyerIdentificationNumber = <<>>
            \/ Len(request.buyerIdentificationNumber) < MinIdentificationLen
         THEN ErrIdentification
    ELSE IF request.buyerContactNumber = <<>>
            \/ Len(request.buyerContactNumber) < MinContactLen
         THEN ErrContact
    ELSE NoError

-----------------------------------------------------------------------------
(* Catalogue *)

Product(id, name, price, status, colors) ==
    [id |-> id, name |-> name, price |-> price, status |-> status, colors |-> colors]

\* the value of getById for an id that has no row
NoProduct == Product(0, "", 0, "", <<>>)

\* ProductPrismaAdapter.getById (findUnique on the primary key, mapToProduct)
getById(prods, id) ==
    IF \E p \in prods : p.id = id THEN CHOOSE p \in prods : p.id = id ELSE NoProduct

Has(u, field) == field \in DOMAIN u

\* ProductPrismaAdapter.update: the row after the partial update u
updatedRow(p, u) ==
    [id     |-> p.id,
     name   |-> IF Has(u, "name") /\ u.name # "" THEN u.name ELSE p.name,
     price  |-> IF Has(u, "price") THEN u.price ELSE p.price,
     status |-> IF Has(u, "status") /\ u.status # "" THEN u.status ELSE p.status,
     colors |-> IF Has(u, "colors") THEN u.colors ELSE p.colors]

Store(prods, purs, dets) == [products |-> prods, purchases |-> purs, orderDetails |-> dets]

\* ProductService.updateProduct on an existing product: colours are normalised,
\* then the adapter rewrites the one products row
updateProductRows(db, id, u) ==
    LET n == IF Has(u, "colors") THEN [u EXCEPT !.colors = normalizeColors(u.colors)] ELSE u
    IN  [db EXCEPT !.products =
            {IF p.id = id THEN updatedRow(p, n) ELSE p : p \in db.products}]

\* a delete that also removes the order lines naming the product
deleteProductRowsCascading(db, id) ==
    [db EXCEPT !.products = {p \in db.products : p.id # id},
               !.orderDetails =
                   {d \in db.orderDetails : d.productName # getById(db.products, id).name}]

\* ProductPrismaAdapter.delete: no table references products
deleteProductRows(db, id) ==
    [db EXCEPT !.products = {p \in db.products : p.id # id}]

-----------------------------------------------------------------------------
(* Cart validation: PurchaseService.validateAndCalculateItems, one item *)

\* the colour list the validator compares against (product.colors as mapToProduct
\* returns it: a list, empty when the column is NULL)
availableColors(product) == product.colors

colorMatches(selectedColor, product) ==
    \E k \in 1..Len(availableColors(product)) :
        normalizeColor(availableColors(product)[k]) = normalizeColor(selectedColor)

\* an iteration without the colour check
itemErrorNoColor(item, product) ==
    IF item.quantity <= 0 THEN ErrQuantity
    ELSE IF product = NoProduct THEN ErrNotFound
    ELSE IF product.status # "available" THEN ErrNotAvailable
    ELSE NoError

\* an iteration without the availability check
itemErrorNoStatus(item, product) ==
    IF item.quantity <= 0 THEN ErrQuantity
    ELSE IF product = NoProduct THEN ErrNotFound
    ELSE IF item.selectedColor # NoColor /\ ~colorMatches(item.selectedColor, product)
         THEN ErrColor
    ELSE NoError

\* an iteration that looks at the product before it looks at the quantity
itemErrorExistenceFirst(item, product) ==
    IF product = NoProduct THEN ErrNotFound
    ELSE IF item.quantity <= 0 THEN ErrQuantity
    ELSE IF product.status # "available" THEN ErrNotAvailable
    ELSE IF item.selectedColor # NoColor /\ ~colorMatches(item.selectedColor, product)
         THEN ErrColor
    ELSE NoError

\* the error of one loop iteration, product being the result of getById
itemError(item, product) ==
    IF item.quantity <= 0 THEN ErrQuantity
    ELSE IF product = NoProduct THEN ErrNotFound
    ELSE IF product.status # "available" THEN ErrNotAvailable
    ELSE IF item.selectedColor # NoColor /\ ~colorMatches(item.selectedColor, product)
         THEN ErrColor
    ELSE NoError

\* an iteration that fetches the product before it looks at the quantity
itemLooksUpAlways(item) == TRUE

\* the iteration performs the catalogue lookup unless the quantity check threw
itemLooksUp(item) == item.quantity > 0

\* the ValidatedCartItem pushed for an item that passed
validatedItem(item, product) ==
    [productId |-> item.productId, quantity |-> item.quantity,
     selectedColor |-> item.selectedColor, product |-> product,
     unitPrice |-> product.price, totalPrice |-> product.price * item.quantity]

RECURSIVE SumTotalPrice(_)
\* validatedItems.reduce((sum, item) => sum + item.totalPrice, 0)
SumTotalPrice(items) ==
    IF items = <<>> THEN 0 ELSE Head(items).totalPrice + SumTotalPrice(Tail(items))

\* Math.round of an amount given in hundredths, in whole pesos (half rounds up)
MathRound(hundredths) == (hundredths + 50) \div 100

-----------------------------------------------------------------------------
(* The rows createPurchase writes *)

\* data of prisma.purchase.create
purchaseData(id, request, totalAmount, externalReference) ==
    [id |-> id,
     buyerEmail |-> request.buyerEmail,
     buyerName |-> request.buyerName,
     buyerIdentificationNumber |-> request.buyerIdentificationNumber,
     buyerContactNumber |-> request.buyerContactNumber,
     status |-> "PENDING",
     orderStatus |-> "PENDING",
     amount |-> MathRound(totalAmount),
     currency |-> "COP",
     paymentProvider |-> "WOMPI",
     externalReference |-> externalReference,
     preferenceId |-> 0,
     wompiTransactionId |-> 0]

\* an order line written without the colour the buyer chose
orderDetailDataNoColor(id, purchaseId, item) ==
    [id |-> id,
     purchaseId |-> purchaseId,
     productName |-> item.product.name,
     quantity |-> item.quantity,
     unitPrice |-> item.unitPrice,
     totalPrice |-> item.totalPrice,
     selectedColor |-> NoColor]

\* data of prisma.orderDetail.create for one validated item
orderDetailData(id, purchaseId, item) ==
    [id |-> id,
     purchaseId |-> purchaseId,
     productName |-> item.product.name,
     quantity |-> item.quantity,
     unitPrice |-> item.unitPrice,
     totalPrice |-> item.totalPrice,
     selectedColor |-> item.selectedColor]

\* an update that fills the transaction-id field only
purchaseWithWompiIdOnly(row, transactionId) ==
    [row EXCEPT !.wompiTransactionId = transactionId]

\* prisma.purchase.update with the gateway's transaction id
purchaseWithWompi(row, transactionId) ==
    [row EXCEPT !.preferenceId = transactionId, !.wompiTransactionId = transactionId]

responseItem(item) ==
    [productName |-> item.product.name, quantity |-> item.quantity,
     unitPrice |-> item.unitPrice, totalPrice |-> item.totalPrice,
     selectedColor |-> item.selectedColor]

NoResponse ==
    [success |-> FALSE, purchaseId |-> 0, wompiTransactionId |-> 0, paymentUrl |-> "",
     totalAmount |-> 0, items |-> <<>>]

\* a response that reports the rounded header amount as the total
createPurchaseResponseRounded(purchase, wompiTransaction, validatedItems, totalAmount) ==
    [success |-> TRUE, purchaseId |-> purchase.id,
     wompiTransactionId |-> wompiTransaction.transactionId,
     paymentUrl |-> wompiTransaction.paymentUrl,
     totalAmount |-> purchase.amount * 100,
     items |-> [k \in 1..Len(validatedItems) |-> responseItem(validatedItems[k])]]

\* the CreatePurchaseResponse built after the transaction
createPurchaseResponse(purchase, wompiTransaction, validatedItems, totalAmount) ==
    [success |-> TRUE, purchaseId |-> purchase.id,
     wompiTransactionId |-> wompiTransaction.transactionId,
     paymentUrl |-> wompiTransaction.paymentUrl,
     totalAmount |-> totalAmount,
     items |-> [k \in 1..Len(validatedItems) |-> responseItem(validatedItems[k])]]

-----------------------------------------------------------------------------
(* The interactive transaction of prisma.$transaction *)

NoTx == [purchases |-> {}, orderDetails |-> {}]

\* the committed tables after COMMIT of the rows t
txCommit(db, t) ==
    [db EXCEPT !.purchases = db.purchases \cup t.purchases,
               !.orderDetails = db.orderDetails \cup t.orderDetails]

\* a rollback that leaves the rows behind (writes made outside the transaction)
txRollbackKeepingRows(db, t) == txCommit(db, t)

\* a rollback that takes the committed rows of other calls with it
txRollbackEverything(db, t) == [db EXCEPT !.purchases = {}, !.orderDetails = {}]

\* the committed tables after ROLLBACK: the callback threw
txRollback(db, t) == db

\* an error wrapped in a generic one on its way out
rethrowGeneric(error) == InfraError("Failed to create purchase")

\* catch (error) { Logger.error(...); throw error; }
rethrow(error) == error

-----------------------------------------------------------------------------
(* Inputs *)

Email == <<"a", "@", "b", ".", "c">>
Name == <<"J", "o">>

Buyer(email, name, identification, contact) ==
    [buyerEmail |-> email, buyerName |-> name,
     buyerIdentificationNumber |-> identification, buyerContactNumber |-> contact]

GoodBuyer == Buyer(Email, Name, Repeat("1", MinIdentificationLen), Repeat("3", MinContactLen))

Buyers ==
    { GoodBuyer,
      Buyer(<<"a", "@", "b">>, Name, Repeat("1", MinIdentificationLen),
            Repeat("3", MinContactLen)),
      Buyer(Email, <<" ", "J", " ">>, Repeat("1", MinIdentificationLen),
            Repeat("3", MinContactLen)),
      Buyer(Email, Name, Repeat("1", MinIdentificationLen - 1), Repeat("3", MinContactLen)),
      Buyer(Email, Name, Repeat("1", MinIdentificationLen), Repeat("3", MinContactLen - 1)) }

Seqs(S, n) == UNION {[1..k -> S] : k \in 0..n}

\* carts of up to MaxCartLen lines of the same product (the empty cart among
\* them), a cart of two products, a cart with a colour the product has, and
\* carts that fail on the colour, on a product that does not exist, on the
\* quantity (0 also stands for a missing quantity: both are falsy) and on a
\* product that is not available, the offending item in several positions
Carts ==
    Seqs({Item(1, 1, NoColor)}, MaxCartLen)
        \cup { <<Item(1, 1, NoColor), Item(2, 3, NoColor)>>,
               <<Item(1, 2, <<" ", "a'", "z">>)>>,
               <<Item(2, 1, <<"z">>)>>,
               <<Item(1, 1, NoColor), Item(3, 1, NoColor)>>,
               <<Item(2, 0, NoColor)>>,
               <<Item(1, 1, NoColor), Item(2, -1, NoColor), Item(1, 1, NoColor)>>,
               <<Item(4, 1, NoColor)>>,
               <<Item(1, 1, NoColor), Item(4, 1, NoColor)>>,
               <<Item(3, 1, NoColor), Item(4, 1, NoColor)>>,
               <<Item(4, 1, NoColor), Item(3, 1, NoColor)>> }

Request(buyer, items) ==
    [buyerEmail |-> buyer.buyerEmail, buyerName |-> buyer.buyerName,
     buyerIdentificationNumber |-> buyer.buyerIdentificationNumber,
     buyerContactNumber |-> buyer.buyerContactNumber, items |-> items]

\* every cart of a well-formed buyer, and one cart of each malformed buyer
Requests ==
    {Request(GoodBuyer, items) : items \in Carts}
        \cup {Request(b, <<Item(1, 1, NoColor)>>) : b \in Buyers}

NoRequest == Request(Buyer(<<>>, <<>>, <<>>, <<>>), <<>>)

\* `REF-${Date.now()}-${Math.random()...}`: some non-empty text; nothing makes
\* two draws differ
ExternalReferences == {"REF-1", "REF-2"}

\* the partial updates of the catalogue that are tried
UpdateProductRequests ==
    { [price |-> 2550], [name |-> "Lamp XL"], [status |-> "out-of-stock"],
      [colors |-> << <<"z">> >>] }

InitialProducts ==
    { Product(1, "Lamp", 1050, "available", << <<"A", "Z">> >>),
      Product(2, "Desk", 2000, "available", <<>>),
      Product(4, "Sofa", 3000, "coming-soon", <<>>) }

ProductIds == {1, 2}

-----------------------------------------------------------------------------
(* State *)

NoWompiTransaction == [transactionId |-> 0, paymentUrl |-> ""]

IdleCall ==
    [pc |-> "idle", request |-> NoRequest, validatedItems |-> <<>>, totalAmount |-> 0,
     externalReference |-> "", purchaseId |-> 0, wompiTransaction |-> NoWompiTransaction,
     raised |-> NoError, error |-> NoError, response |-> NoResponse,
     lookups |-> 0, writes |-> 0, payments |-> 0]

IdleReader == [pc |-> "idle", found |-> {}, result |-> {}]

IdleRecon ==
    [pc |-> "idle", wompiTransactionId |-> 0, status |-> "", externalReference |-> "",
     purchaseId |-> 0]

\* updateData without a field
NoUpdateData == [x \in {} |-> <<>>]

IdleEdit == [pc |-> "idle", purchaseId |-> 0, data |-> NoUpdateData, error |-> NoError]

\* no ClientService / QuoteService invocation
IdleClientCall == [pc |-> "idle", op |-> "", id |-> 0, data |-> NoUpdateData, error |-> NoError]

IdleQuoteCall ==
    [pc |-> "idle", op |-> "", id |-> 0, data |-> NoUpdateData, totalAmount |-> 0,
     error |-> NoError]

\* the client and quote tables after the migrations: empty
InitOffice ==
    /\ clients = {}
    /\ seqClient = 1
    /\ clientCall = [c \in Callers |-> IdleClientCall]
    /\ clientOps = 0
    /\ quotes = {}
    /\ seqQuote = 1
    /\ quoteCall = IdleQuoteCall
    /\ quoteOps = 0

Committed == Store(products, purchases, orderDetails)

Init ==
    /\ products = InitialProducts
    /\ purchases = {}
    /\ orderDetails = {}
    /\ seqPurchase = 1
    /\ seqDetail = 1
    /\ tx = [c \in Callers |-> NoTx]
    /\ gateway = {}
    /\ call = [c \in Callers |-> IdleCall]
    /\ cartSize = <<>>
    /\ catalogOps = 0
    /\ soldThenEdited = FALSE
    /\ reader = IdleReader
    /\ recon = IdleRecon
    /\ recons = 0
    /\ edit = IdleEdit
    /\ edits = 0
    /\ InitOffice
    /\ vreq = NoRequest
    /\ vres = NoError

harness == <<vreq, vres>>
catalogue == <<products, catalogOps, soldThenEdited>>
others == <<reader, recon, recons>>
editing == <<edit, edits>>
office == <<clients, seqClient, clientCall, clientOps, quotes, seqQuote, quoteCall, quoteOps>>
purchasing == <<seqPurchase, seqDetail, tx, gateway, call, cartSize>>

-----------------------------------------------------------------------------
(* createPurchase *)

\* the invocation rejects with error e; an open transaction is rolled back
Reject(c, e) ==
    /\ call' = [call EXCEPT ![c].pc = "failed", ![c].raised = e, ![c].error = rethrow(e)]
    /\ LET db == txRollback(Committed, tx[c])
       IN  /\ purchases' = db.purchases
           /\ orderDetails' = db.orderDetails
    /\ tx' = [tx EXCEPT ![c] = NoTx]

\* entry: validatePurchaseRequest runs before the first await
CreatePurchase(c, request) ==
    /\ call[c].pc = "idle"
    /\ LET e == validatePurchaseRequest(request)
       IN  IF e # NoError
           THEN call' = [call EXCEPT ![c] =
                           [IdleCall EXCEPT !.pc = "failed", !.request = request,
                                            !.raised = e, !.error = rethrow(e)]]
           ELSE call' = [call EXCEPT ![c] =
                           [IdleCall EXCEPT !.pc = "validating", !.request = request]]
    /\ UNCHANGED <<purchases, orderDetails, seqPurchase, seqDetail, tx, gateway, cartSize>>
    /\ UNCHANGED <<catalogue, others, harness, editing, office>>

\* one iteration of the loop of validateAndCalculateItems; after the last item the
\* total is summed
ValidateItem(c) ==
    /\ call[c].pc = "validating"
    /\ LET i == Len(call[c].validatedItems) + 1
           item == call[c].request.items[i]
           product == IF itemLooksUp(item) THEN getById(products, item.productId)
                      ELSE NoProduct
           e == itemError(item, product)
           n == call[c].lookups + (IF itemLooksUp(item) THEN 1 ELSE 0)
           items == Append(call[c].validatedItems, validatedItem(item, product))
       IN  IF e # NoError
           THEN call' = [call EXCEPT ![c].pc = "failed", ![c].raised = e,
                                     ![c].error = rethrow(e), ![c].lookups = n]
           ELSE call' = [call EXCEPT
                           ![c].validatedItems = items,
                           ![c].lookups = n,
                           ![c].totalAmount =
                               IF i = Len(call[c].request.items)
                               THEN SumTotalPrice(items) ELSE 0,
                           ![c].pc =
                               IF i = Len(call[c].request.items)
                               THEN "header" ELSE "validating"]
    /\ UNCHANGED <<purchases, orderDetails, seqPurchase, seqDetail, tx, gateway, cartSize>>
    /\ UNCHANGED <<catalogue, others, harness, editing, office>>

\* the transaction opens; the reference is drawn; prisma.purchase.create inside it
CreateHeader(c, externalReference) ==
    /\ call[c].pc = "header"
    /\ \/ LET row == purchaseData(seqPurchase, call[c].request, call[c].totalAmount,
                                  externalReference)
          IN  /\ tx' = [tx EXCEPT ![c].purchases = {row}]
              /\ seqPurchase' = seqPurchase + 1
              /\ cartSize' = Append(cartSize, Len(call[c].request.items))
              /\ call' = [call EXCEPT ![c].pc = "details",
                                      ![c].externalReference = externalReference,
                                      ![c].purchaseId = row.id,
                                      ![c].writes = @ + 1]
              /\ UNCHANGED <<purchases, orderDetails>>
       \/ /\ Reject(c, ErrPurchaseCreate)
          /\ UNCHANGED <<seqPurchase, cartSize>>
    /\ UNCHANGED <<seqDetail, gateway>>
    /\ UNCHANGED <<catalogue, others, harness, editing, office>>

\* prisma.orderDetail.create for the next validated item
CreateOrderDetail(c) ==
    /\ call[c].pc = "details"
    /\ LET i == Cardinality(tx[c].orderDetails) + 1
           row == orderDetailData(seqDetail, call[c].purchaseId, call[c].validatedItems[i])
       IN  \/ /\ tx' = [tx EXCEPT ![c].orderDetails = @ \cup {row}]
              /\ seqDetail' = seqDetail + 1
              /\ call' = [call EXCEPT ![c].writes = @ + 1,
                                      ![c].pc = IF i = Len(call[c].validatedItems)
                                                THEN "gateway" ELSE "details"]
              /\ UNCHANGED <<purchases, orderDetails>>
           \/ /\ Reject(c, ErrOrderDetailCreate)
              /\ UNCHANGED seqDetail
    /\ UNCHANGED <<seqPurchase, gateway, cartSize>>
    /\ UNCHANGED <<catalogue, others, harness, editing, office>>


\* the payload createPurchase hands to WompiService.createPayment
paymentPayload(request, totalAmount, externalReference) ==
    [externalReference |-> externalReference, amount |-> totalAmount,
     buyerEmail |-> request.buyerEmail, buyerName |-> request.buyerName,
     buyerIdentificationNumber |-> request.buyerIdentificationNumber,
     buyerContactNumber |-> request.buyerContactNumber]

\* Payment Gateway Client, success: the remote transaction it creates
gatewayTransaction(gw, payload) ==
    [transactionId |-> Cardinality(gw) + 1,
     externalReference |-> payload.externalReference,
     amount |-> payload.amount]

\* what createPayment resolves to
gatewayResult(t) == [transactionId |-> t.transactionId, paymentUrl |-> "https://checkout"]

\* a gateway call that is tried a second time when the first attempt throws
CallGatewayRetrying(c) ==
    /\ call[c].pc = "gateway"
    /\ \/ LET t == gatewayTransaction(gateway,
                       paymentPayload(call[c].request, call[c].totalAmount,
                                      call[c].externalReference))
          IN  /\ gateway' = gateway \cup {t}
              /\ call' = [call EXCEPT ![c].pc = "update",
                                      ![c].wompiTransaction = gatewayResult(t),
                                      ![c].payments = @ + 1]
              /\ UNCHANGED <<purchases, orderDetails, tx>>
       \/ /\ call[c].payments = 0
          /\ call' = [call EXCEPT ![c].payments = @ + 1]
          /\ UNCHANGED <<purchases, orderDetails, tx, gateway>>
       \/ /\ call[c].payments > 0
          /\ call' = [call EXCEPT ![c].pc = "failed", ![c].raised = ErrGateway,
                                  ![c].error = rethrow(ErrGateway),
                                  ![c].payments = @ + 1]
          /\ LET db == txRollback(Committed, tx[c])
             IN  /\ purchases' = db.purchases
                 /\ orderDetails' = db.orderDetails
          /\ tx' = [tx EXCEPT ![c] = NoTx]
          /\ UNCHANGED gateway
    /\ UNCHANGED <<seqPurchase, seqDetail, cartSize>>
    /\ UNCHANGED <<catalogue, others, harness, editing, office>>

\* this.wompiService.createPayment, awaited inside the open transaction
CallGateway(c) ==
    /\ call[c].pc = "gateway"
    /\ \/ LET t == gatewayTransaction(gateway,
                       paymentPayload(call[c].request, call[c].totalAmount,
                                      call[c].externalReference))
          IN  /\ gateway' = gateway \cup {t}
              /\ call' = [call EXCEPT ![c].pc = "update",
                                      ![c].wompiTransaction = gatewayResult(t),
                                      ![c].payments = @ + 1]
              /\ UNCHANGED <<purchases, orderDetails, tx>>
       \/ /\ call' = [call EXCEPT ![c].pc = "failed", ![c].raised = ErrGateway,
                                  ![c].error = rethrow(ErrGateway),
                                  ![c].payments = @ + 1]
          /\ LET db == txRollback(Committed, tx[c])
             IN  /\ purchases' = db.purchases
                 /\ orderDetails' = db.orderDetails
          /\ tx' = [tx EXCEPT ![c] = NoTx]
          /\ UNCHANGED gateway
    /\ UNCHANGED <<seqPurchase, seqDetail, cartSize>>
    /\ UNCHANGED <<catalogue, others, harness, editing, office>>

\* prisma.purchase.update with the transaction id, still inside the transaction
UpdateHeader(c) ==
    /\ call[c].pc = "update"
    /\ \/ /\ tx' = [tx EXCEPT ![c].purchases =
                      {purchaseWithWompi(row, call[c].wompiTransaction.transactionId) :
                          row \in tx[c].purchases}]
          /\ call' = [call EXCEPT ![c].pc = "commit", ![c].writes = @ + 1]
          /\ UNCHANGED <<purchases, orderDetails>>
       \/ Reject(c, ErrPurchaseUpdate)
    /\ UNCHANGED <<seqPurchase, seqDetail, gateway, cartSize>>
    /\ UNCHANGED <<catalogue, others, harness, editing, office>>

\* the callback returned: COMMIT, then the response is built
Commit(c) ==
    /\ call[c].pc = "commit"
    /\ \/ LET db == txCommit(Committed, tx[c])
              row == CHOOSE r \in tx[c].purchases : TRUE
          IN  /\ purchases' = db.purchases
              /\ orderDetails' = db.orderDetails
              /\ tx' = [tx EXCEPT ![c] = NoTx]
              /\ call' = [call EXCEPT
                            ![c].pc = "done",
                            ![c].response =
                                createPurchaseResponse(row, call[c].wompiTransaction,
                                                       call[c].validatedItems,
                                                       call[c].totalAmount)]
       \/ Reject(c, ErrCommit)
    /\ UNCHANGED <<seqPurchase, seqDetail, gateway, cartSize>>
    /\ UNCHANGED <<catalogue, others, harness, editing, office>>

-----------------------------------------------------------------------------
(* Catalogue mutations: ProductService.updateProduct, deleteProduct *)

\* the request passes the field checks of updateProduct
updateRequestValid(u) ==
    /\ DOMAIN u # {}
    /\ Has(u, "price") => u.price > 0

UpdateProduct(id, u) ==
    /\ catalogOps < MaxCatalogOps
    /\ updateRequestValid(u)
    /\ getById(products, id) # NoProduct
    /\ LET db == updateProductRows(Committed, id, u)
       IN  /\ products' = db.products
           /\ purchases' = db.purchases
           /\ orderDetails' = db.orderDetails
    /\ catalogOps' = catalogOps + 1
    /\ soldThenEdited' = (soldThenEdited \/ orderDetails # {})
    /\ UNCHANGED purchasing
    /\ UNCHANGED <<others, harness, editing, office>>

DeleteProduct(id) ==
    /\ catalogOps < MaxCatalogOps
    /\ getById(products, id) # NoProduct
    /\ LET db == deleteProductRows(Committed, id)
       IN  /\ products' = db.products
           /\ purchases' = db.purchases
           /\ orderDetails' = db.orderDetails
    /\ catalogOps' = catalogOps + 1
    /\ soldThenEdited' = (soldThenEdited \/ orderDetails # {})
    /\ UNCHANGED purchasing
    /\ UNCHANGED <<others, harness, editing, office>>

-----------------------------------------------------------------------------
(* Readers: getPurchasesByEmail, getAllPurchases *)

\* the rows of purchases a query through the shared client sees
visiblePurchasesDirty(committed, open) ==
    committed \cup UNION {open[c].purchases : c \in DOMAIN open}

visiblePurchases(committed, open) == committed

visibleOrderDetails(committed, open) == committed

RECURSIVE SortById(_)
SortById(rows) ==
    IF rows = {} THEN <<>>
    ELSE LET first == CHOOSE r \in rows : \A q \in rows : r.id <= q.id
         IN  <<first>> \o SortById(rows \ {first})

\* the order_details rows of one purchase, by id
detailsOf(purchaseId, dets) == SortById({d \in dets : d.purchaseId = purchaseId})

\* one FormattedPurchase
formatPurchase(p, dets) ==
    [id |-> p.id, buyerEmail |-> p.buyerEmail, status |-> p.status,
     orderStatus |-> p.orderStatus, amount |-> p.amount,
     wompiTransactionId |-> p.wompiTransactionId,
     externalReference |-> p.externalReference,
     items |-> [k \in 1..Len(detailsOf(p.id, dets)) |->
                    [productName |-> detailsOf(p.id, dets)[k].productName,
                     quantity |-> detailsOf(p.id, dets)[k].quantity,
                     unitPrice |-> detailsOf(p.id, dets)[k].unitPrice,
                     totalPrice |-> detailsOf(p.id, dets)[k].totalPrice]]]

\* findMany on purchases: all of them, or those of one buyer
ReadPurchases(all, email) ==
    /\ reader.pc = "idle"
    /\ reader' = [pc |-> "joining",
                  found |-> {p \in visiblePurchases(purchases, tx) :
                                all \/ p.buyerEmail = email},
                  result |-> {}]
    /\ UNCHANGED <<purchases, orderDetails, purchasing>>
    /\ UNCHANGED <<catalogue, recon, recons, harness, editing, office>>

\* include: { orderDetails: true } is a second query, for the purchases found
ReadOrderDetails ==
    /\ reader.pc = "joining"
    /\ reader' = [pc |-> "returned", found |-> {},
                  result |-> {formatPurchase(p, visibleOrderDetails(orderDetails, tx)) :
                                 p \in reader.found}]
    /\ UNCHANGED <<purchases, orderDetails, purchasing>>
    /\ UNCHANGED <<catalogue, recon, recons, harness, editing, office>>

ReaderReturn ==
    /\ reader.pc = "returned"
    /\ reader' = IdleReader
    /\ UNCHANGED <<purchases, orderDetails, purchasing>>
    /\ UNCHANGED <<catalogue, recon, recons, harness, editing, office>>

-----------------------------------------------------------------------------
(* Reconciliation: PurchaseService.updatePaymentStatus *)

ReconTransactionIds == {1, 2}
ReconStatuses == {"APPROVED", "REJECTED"}
NoReference == ""

\* a lookup that tries the external reference before the transaction id
UpdatePaymentStatusByReferenceFirst(wompiTransactionId, status, externalReference) ==
    /\ recon.pc = "idle"
    /\ recons < MaxRecons
    /\ recons' = recons + 1
    /\ LET byRef == {p \in purchases : p.externalReference = externalReference}
           byId == {p \in purchases : p.wompiTransactionId = wompiTransactionId}
           matches == IF externalReference # "" /\ byRef # {} THEN byRef ELSE byId
           started == [pc |-> "idle", wompiTransactionId |-> wompiTransactionId,
                       status |-> status, externalReference |-> externalReference,
                       purchaseId |-> 0]
       IN  IF matches # {}
           THEN \E p \in matches :
                    recon' = [started EXCEPT !.pc = "update", !.purchaseId = p.id]
           ELSE recon' = [started EXCEPT !.pc = "returned"]
    /\ UNCHANGED <<purchases, orderDetails, purchasing>>
    /\ UNCHANGED <<catalogue, reader, harness, editing, office>>

\* entry and first findFirst, by wompiTransactionId
UpdatePaymentStatus(wompiTransactionId, status, externalReference) ==
    /\ recon.pc = "idle"
    /\ recons < MaxRecons
    /\ recons' = recons + 1
    /\ LET matches == {p \in visiblePurchases(purchases, tx) :
                          p.wompiTransactionId = wompiTransactionId}
           started == [pc |-> "idle", wompiTransactionId |-> wompiTransactionId,
                       status |-> status, externalReference |-> externalReference,
                       purchaseId |-> 0]
       IN  IF matches # {}
           THEN \E p \in matches :
                    recon' = [started EXCEPT !.pc = "update", !.purchaseId = p.id]
           ELSE IF externalReference # NoReference
           THEN recon' = [started EXCEPT !.pc = "byReference"]
           ELSE recon' = [started EXCEPT !.pc = "returned"]
    /\ UNCHANGED <<purchases, orderDetails, purchasing>>
    /\ UNCHANGED <<catalogue, reader, harness, editing, office>>

\* second findFirst, by externalReference
FindByReference ==
    /\ recon.pc = "byReference"
    /\ LET matches == {p \in visiblePurchases(purchases, tx) :
                          p.externalReference = recon.externalReference}
       IN  IF matches # {}
           THEN \E p \in matches :
                    recon' = [recon EXCEPT !.pc = "update", !.purchaseId = p.id]
           ELSE recon' = [recon EXCEPT !.pc = "returned"]
    /\ UNCHANGED <<purchases, orderDetails, purchasing>>
    /\ UNCHANGED <<catalogue, reader, recons, harness, editing, office>>

\* an update that lets the fulfilment status follow the payment status
purchaseWithStatusAndOrder(row, status, wompiTransactionId) ==
    [row EXCEPT !.status = status, !.orderStatus = status,
                !.wompiTransactionId = wompiTransactionId]

\* data of the prisma.purchase.update of updatePaymentStatus
purchaseWithStatus(row, status, wompiTransactionId) ==
    [row EXCEPT !.status = status, !.wompiTransactionId = wompiTransactionId]

UpdateStatus ==
    /\ recon.pc = "update"
    /\ purchases' = {IF p.id = recon.purchaseId
                     THEN purchaseWithStatus(p, recon.status, recon.wompiTransactionId)
                     ELSE p : p \in purchases}
    /\ recon' = [recon EXCEPT !.pc = "returned"]
    /\ UNCHANGED <<orderDetails, purchasing>>
    /\ UNCHANGED <<catalogue, reader, recons, harness, editing, office>>

ReconReturn ==
    /\ recon.pc = "returned"
    /\ recon' = IdleRecon
    /\ UNCHANGED <<purchases, orderDetails, purchasing>>
    /\ UNCHANGED <<catalogue, reader, recons, harness, editing, office>>

-----------------------------------------------------------------------------
(* The buyer-info edit: PurchaseService.updatePurchase *)

\* a field of updateData that is present and truthy
Provided(data, field) == Has(data, field) /\ data[field] # <<>>

\* the error updatePurchase throws before it writes, or NoError
updatePurchaseError(found, data) ==
    IF ~found THEN InfraError("Purchase not found")
    ELSE IF Provided(data, "buyerEmail") /\ ~emailRegexTest(data.buyerEmail)
         THEN InfraError("Invalid email format")
    ELSE IF Provided(data, "buyerName") /\ Len(trim(data.buyerName)) < 2
         THEN InfraError("Buyer name must be at least 2 characters long")
    ELSE NoError

\* an edit that also puts the payment status back to PENDING
purchaseEditedResettingStatus(row, data) ==
    [row EXCEPT
        !.buyerEmail = IF Provided(data, "buyerEmail") THEN data.buyerEmail ELSE @,
        !.buyerName = IF Provided(data, "buyerName") THEN trim(data.buyerName) ELSE @,
        !.buyerContactNumber =
            IF Provided(data, "buyerContactNumber") THEN data.buyerContactNumber ELSE @,
        !.status = "PENDING"]

\* the row after prisma.purchase.update with dataToUpdate (updatedAt is not a
\* column of the model)
purchaseEdited(row, data) ==
    [row EXCEPT
        !.buyerEmail = IF Provided(data, "buyerEmail") THEN data.buyerEmail ELSE @,
        !.buyerName = IF Provided(data, "buyerName") THEN trim(data.buyerName) ELSE @,
        !.buyerContactNumber =
            IF Provided(data, "buyerContactNumber") THEN data.buyerContactNumber ELSE @]

EditPurchaseIds == {1, 2}

\* the edits that are tried: nothing, each field alone (well-formed, malformed,
\* to be trimmed), and several fields of which one is empty
UpdatePurchaseDatas ==
    { NoUpdateData,
      [buyerEmail |-> <<"x", "@", "y", ".", "z">>],
      [buyerEmail |-> <<"x", "@", "y">>],
      [buyerName |-> <<" ", "N", "e", "w", " ">>],
      [buyerName |-> <<" ", "J", " ">>],
      [buyerContactNumber |-> <<"9">>],
      [buyerName |-> <<>>, buyerContactNumber |-> <<"9">>],
      [buyerEmail |-> <<>>, buyerName |-> <<"A", "l">>, buyerContactNumber |-> <<"9">>] }

\* entry, findUnique by id and the checks of the new values
UpdatePurchase(purchaseId, updateData) ==
    /\ edit.pc = "idle"
    /\ edits < MaxEdits
    /\ edits' = edits + 1
    /\ LET found == \E p \in visiblePurchases(purchases, tx) : p.id = purchaseId
           e == updatePurchaseError(found, updateData)
       IN  edit' = [pc |-> IF e = NoError THEN "update" ELSE "failed",
                    purchaseId |-> purchaseId, data |-> updateData, error |-> e]
    /\ UNCHANGED <<purchases, orderDetails, purchasing>>
    /\ UNCHANGED <<catalogue, others, harness, office>>

\* prisma.purchase.update of the purchase found, with dataToUpdate
EditWrite ==
    /\ edit.pc = "update"
    /\ purchases' = {IF p.id = edit.purchaseId THEN purchaseEdited(p, edit.data) ELSE p :
                         p \in purchases}
    /\ edit' = [edit EXCEPT !.pc = "returned"]
    /\ UNCHANGED <<orderDetails, purchasing, edits>>
    /\ UNCHANGED <<catalogue, others, harness, office>>

\* the result is returned, or the error rethrown
EditReturn ==
    /\ edit.pc \in {"returned", "failed"}
    /\ edit' = IdleEdit
    /\ UNCHANGED <<purchases, orderDetails, purchasing, edits>>
    /\ UNCHANGED <<catalogue, others, harness, office>>

-----------------------------------------------------------------------------
(* Clients: ClientService over ClientPrismaAdapter *)

\* errors of the shared exceptions module, and the error the Prisma client
\* throws for a rejected statement (P2002 unique constraint, P2003 foreign key,
\* P2025 record not found)
ConflictError(message) == [type |-> "ConflictError", message |-> message]
NotFoundError(message) == [type |-> "NotFoundError", message |-> message]
PrismaError(code) == [type |-> "PrismaClientKnownRequestError", message |-> code]

\* a row of clients (phone, country and the optional columns play no part)
Client(id, name, email) == [id |-> id, name |-> name, email |-> email]

\* the unique index clients_email_key admits a row with this email beside rows
UniqueEmail(rows, email) == \A r \in rows : r.email # email

\* the row after prisma.client.update with data (undefined fields are skipped)
clientUpdated(row, data) ==
    [row EXCEPT !.name = IF Has(data, "name") THEN data.name ELSE @,
                !.email = IF Has(data, "email") THEN data.email ELSE @]

ClientEmails == {"ana@x.co", "bob@x.co"}
ClientIds == {1, 2}

ClientRequests == {[name |-> "Ana", email |-> e] : e \in ClientEmails}

UpdateClientRequests == {[email |-> e] : e \in ClientEmails} \cup {[name |-> "Bea"]}

\* entry of createClient and its getByEmail
CreateClient(c, data) ==
    /\ clientCall[c].pc = "idle"
    /\ clientOps < MaxClientOps
    /\ clientOps' = clientOps + 1
    /\ clientCall' = [clientCall EXCEPT ![c] =
           IF \E r \in clients : r.email = data.email
           THEN [pc |-> "failed", op |-> "create", id |-> 0, data |-> data,
                 error |-> ConflictError("already exists")]
           ELSE [pc |-> "write", op |-> "create", id |-> 0, data |-> data,
                 error |-> NoError]]
    /\ UNCHANGED <<clients, seqClient, quotes, seqQuote, quoteCall, quoteOps>>
    /\ UNCHANGED <<purchases, orderDetails, purchasing, catalogue, others, editing, harness>>

\* entry of updateClient and its getById
UpdateClient(c, id, data) ==
    /\ clientCall[c].pc = "idle"
    /\ clientOps < MaxClientOps
    /\ clientOps' = clientOps + 1
    /\ clientCall' = [clientCall EXCEPT ![c] =
           IF \A r \in clients : r.id # id
           THEN [pc |-> "failed", op |-> "update", id |-> id, data |-> data,
                 error |-> NotFoundError("client")]
           ELSE [pc |-> IF Has(data, "email") /\ data.email # ""
                           /\ \E r \in clients : r.id = id /\ r.email # data.email
                        THEN "checkEmail" ELSE "write",
                 op |-> "update", id |-> id, data |-> data, error |-> NoError]]
    /\ UNCHANGED <<clients, seqClient, quotes, seqQuote, quoteCall, quoteOps>>
    /\ UNCHANGED <<purchases, orderDetails, purchasing, catalogue, others, editing, harness>>

\* the getByEmail of updateClient
CheckEmail(c) ==
    /\ clientCall[c].pc = "checkEmail"
    /\ clientCall' = [clientCall EXCEPT ![c] =
           IF \E r \in clients : r.email = clientCall[c].data.email
           THEN [@ EXCEPT !.pc = "failed", !.error = ConflictError("already in use")]
           ELSE [@ EXCEPT !.pc = "write"]]
    /\ UNCHANGED <<clients, seqClient, clientOps, quotes, seqQuote, quoteCall, quoteOps>>
    /\ UNCHANGED <<purchases, orderDetails, purchasing, catalogue, others, editing, harness>>

\* entry of deleteClient and its getById
DeleteClient(c, id) ==
    /\ clientCall[c].pc = "idle"
    /\ clientOps < MaxClientOps
    /\ clientOps' = clientOps + 1
    /\ clientCall' = [clientCall EXCEPT ![c] =
           IF \A r \in clients : r.id # id
           THEN [pc |-> "failed", op |-> "delete", id |-> id, data |-> NoUpdateData,
                 error |-> NotFoundError("client")]
           ELSE [pc |-> "write", op |-> "delete", id |-> id, data |-> NoUpdateData,
                 error |-> NoError]]
    /\ UNCHANGED <<clients, seqClient, quotes, seqQuote, quoteCall, quoteOps>>
    /\ UNCHANGED <<purchases, orderDetails, purchasing, catalogue, others, editing, harness>>

\* the statement of the invocation: prisma.client.create, update or delete
ClientWrite(c) ==
    /\ clientCall[c].pc = "write"
    /\ LET k == clientCall[c]
           target == {r \in clients : r.id = k.id}
       IN  CASE k.op = "create" ->
                  IF UniqueEmail(clients, k.data.email)
                  THEN /\ clients' = clients \cup {Client(seqClient, k.data.name, k.data.email)}
                       /\ clientCall' = [clientCall EXCEPT ![c].pc = "done", ![c].id = seqClient]
                       /\ seqClient' = seqClient + 1
                       /\ UNCHANGED quotes
                  ELSE /\ clientCall' = [clientCall EXCEPT ![c].pc = "failed",
                                                           ![c].error = PrismaError("P2002")]
                       /\ seqClient' = seqClient + 1
                       /\ UNCHANGED <<clients, quotes>>
             [] k.op = "update" ->
                  /\ IF target = {}
                     THEN /\ clientCall' = [clientCall EXCEPT ![c].pc = "failed",
                                                              ![c].error = PrismaError("P2025")]
                          /\ UNCHANGED clients
                     ELSE IF Has(k.data, "email")
                             /\ ~UniqueEmail(clients \ target, k.data.email)
                     THEN /\ clientCall' = [clientCall EXCEPT ![c].pc = "failed",
                                                              ![c].error = PrismaError("P2002")]
                          /\ UNCHANGED clients
                     ELSE /\ clients' = (clients \ target)
                                            \cup {clientUpdated(r, k.data) : r \in target}
                          /\ clientCall' = [clientCall EXCEPT ![c].pc = "done"]
                  /\ UNCHANGED <<seqClient, quotes>>
             [] k.op = "delete" ->
                  /\ IF target = {}
                     THEN /\ clientCall' = [clientCall EXCEPT ![c].pc = "failed",
                                                              ![c].error = PrismaError("P2025")]
                          /\ UNCHANGED <<clients, quotes>>
                     ELSE /\ clients' = clients \ target
                          /\ quotes' = {q \in quotes : q.clientId # k.id}
                          /\ clientCall' = [clientCall EXCEPT ![c].pc = "done"]
                  /\ UNCHANGED seqClient
    /\ UNCHANGED <<clientOps, seqQuote, quoteCall, quoteOps>>
    /\ UNCHANGED <<purchases, orderDetails, purchasing, catalogue, others, editing, harness>>

\* the invocation returns, or rejects with its error
ClientReturn(c) ==
    /\ clientCall[c].pc \in {"done", "failed"}
    /\ clientCall' = [clientCall EXCEPT ![c] = IdleClientCall]
    /\ UNCHANGED <<clients, seqClient, clientOps, quotes, seqQuote, quoteCall, quoteOps>>
    /\ UNCHANGED <<purchases, orderDetails, purchasing, catalogue, others, editing, harness>>

\* one step of a ClientService invocation by caller c
Clienting(c) ==
    \/ \E data \in ClientRequests : CreateClient(c, data)
    \/ \E id \in ClientIds : \E data \in UpdateClientRequests : UpdateClient(c, id, data)
    \/ CheckEmail(c)
    \/ \E id \in ClientIds : DeleteClient(c, id)
    \/ ClientWrite(c)
    \/ ClientReturn(c)

\* concurrent requests to the clients endpoint
NextClients == \E c \in Callers : Clienting(c)

SpecClients == Init /\ [][NextClients]_vars

-----------------------------------------------------------------------------
(* Quotes: QuoteService over QuotePrismaAdapter *)

\* a Service of a quote: value in thousandths of the currency unit (a JSON
\* number is not limited to two decimals), quantity a whole number
Service(value, quantity) == [value |-> value, quantity |-> quantity]

RECURSIVE servicesTotal(_)
\* services.reduce((sum, service) => sum + service.value * service.quantity, 0),
\* in thousandths
servicesTotal(services) ==
    IF services = <<>> THEN 0
    ELSE Head(services).value * Head(services).quantity + servicesTotal(Tail(services))

\* the value a DECIMAL(15,2) column keeps of an amount given in thousandths:
\* hundredths, the half rounded away from zero
decimalScale2(thousandths) == (thousandths + 5) \div 10

\* a row of quotes: services as the JSON given, totalAmount in hundredths
Quote(id, clientId, services, totalAmount) ==
    [id |-> id, clientId |-> clientId, services |-> services, totalAmount |-> totalAmount]

\* the row after prisma.quote.update: a field that is undefined is left alone
quoteUpdated(row, data, totalAmount) ==
    IF Has(data, "services")
    THEN [row EXCEPT !.services = data.services, !.totalAmount = decimalScale2(totalAmount)]
    ELSE row

ServiceLists ==
    { <<>>,
      <<Service(10000, 2)>>,
      <<Service(10555, 1)>>,
      <<Service(2500, 1), Service(1000, 3)>> }

QuoteIds == {1, 2}

QuoteRequests == {[clientId |-> id, services |-> l] : id \in ClientIds, l \in ServiceLists}

\* an update without services, and one with each list
UpdateQuoteRequests == {NoUpdateData} \cup {[services |-> l] : l \in ServiceLists}

\* entry of createQuote: getById of the client, then the check of the services
CreateQuote(request) ==
    /\ quoteCall.pc = "idle"
    /\ quoteOps < MaxQuoteOps
    /\ quoteOps' = quoteOps + 1
    /\ quoteCall' =
           IF \A r \in clients : r.id # request.clientId
           THEN [pc |-> "failed", op |-> "create", id |-> 0, data |-> request,
                 totalAmount |-> 0, error |-> NotFoundError("client")]
           ELSE IF Len(request.services) = 0
           THEN [pc |-> "failed", op |-> "create", id |-> 0, data |-> request,
                 totalAmount |-> 0, error |-> ConflictError("At least one service is required")]
           ELSE [pc |-> "write", op |-> "create", id |-> 0, data |-> request,
                 totalAmount |-> servicesTotal(request.services), error |-> NoError]
    /\ UNCHANGED <<clients, seqClient, clientCall, clientOps, quotes, seqQuote>>
    /\ UNCHANGED <<purchases, orderDetails, purchasing, catalogue, others, editing, harness>>

\* entry of updateQuote: getById of the quote, then the services if any
UpdateQuote(id, request) ==
    /\ quoteCall.pc = "idle"
    /\ quoteOps < MaxQuoteOps
    /\ quoteOps' = quoteOps + 1
    /\ quoteCall' =
           IF \A q \in quotes : q.id # id
           THEN [pc |-> "failed", op |-> "update", id |-> id, data |-> request,
                 totalAmount |-> 0, error |-> NotFoundError("quote")]
           ELSE IF Has(request, "services") /\ Len(request.services) = 0
           THEN [pc |-> "failed", op |-> "update", id |-> id, data |-> request,
                 totalAmount |-> 0, error |-> ConflictError("At least one service is required")]
           ELSE [pc |-> "write", op |-> "update", id |-> id, data |-> request,
                 totalAmount |-> IF Has(request, "services")
                                 THEN servicesTotal(request.services) ELSE 0,
                 error |-> NoError]
    /\ UNCHANGED <<clients, seqClient, clientCall, clientOps, quotes, seqQuote>>
    /\ UNCHANGED <<purchases, orderDetails, purchasing, catalogue, others, editing, harness>>

\* entry of deleteQuote and its getById
DeleteQuote(id) ==
    /\ quoteCall.pc = "idle"
    /\ quoteOps < MaxQuoteOps
    /\ quoteOps' = quoteOps + 1
    /\ quoteCall' =
           IF \A q \in quotes : q.id # id
           THEN [pc |-> "failed", op |-> "delete", id |-> id, data |-> NoUpdateData,
                 totalAmount |-> 0, error |-> NotFoundError("quote")]
           ELSE [pc |-> "write", op |-> "delete", id |-> id, data |-> NoUpdateData,
                 totalAmount |-> 0, error |-> NoError]
    /\ UNCHANGED <<clients, seqClient, clientCall, clientOps, quotes, seqQuote>>
    /\ UNCHANGED <<purchases, orderDetails, purchasing, catalogue, others, editing, harness>>

\* the statement of the invocation: prisma.quote.create, update or delete
QuoteWrite ==
    /\ quoteCall.pc = "write"
    /\ LET k == quoteCall
           target == {q \in quotes : q.id = k.id}
       IN  CASE k.op = "create" ->
                  /\ seqQuote' = seqQuote + 1
                  /\ IF \E r \in clients : r.id = k.data.clientId
                     THEN /\ quotes' = quotes \cup
                                 {Quote(seqQuote, k.data.clientId, k.data.services,
                                        decimalScale2(k.totalAmount))}
                          /\ quoteCall' = [k EXCEPT !.pc = "done", !.id = seqQuote]
                     ELSE /\ quoteCall' = [k EXCEPT !.pc = "failed",
                                                    !.error = PrismaError("P2003")]
                          /\ UNCHANGED quotes
             [] k.op = "update" ->
                  /\ IF target = {}
                     THEN /\ quoteCall' = [k EXCEPT !.pc = "failed",
                                                    !.error = PrismaError("P2025")]
                          /\ UNCHANGED quotes
                     ELSE /\ quotes' = (quotes \ target)
                                 \cup {quoteUpdated(q, k.data, k.totalAmount) : q \in target}
                          /\ quoteCall' = [k EXCEPT !.pc = "done"]
                  /\ UNCHANGED seqQuote
             [] k.op = "delete" ->
                  /\ IF target = {}
                     THEN /\ quoteCall' = [k EXCEPT !.pc = "failed",
                                                    !.error = PrismaError("P2025")]
                          /\ UNCHANGED quotes
                     ELSE /\ quotes' = quotes \ target
                          /\ quoteCall' = [k EXCEPT !.pc = "done"]
                  /\ UNCHANGED seqQuote
    /\ UNCHANGED <<clients, seqClient, clientCall, clientOps, quoteOps>>
    /\ UNCHANGED <<purchases, orderDetails, purchasing, catalogue, others, editing, harness>>

\* the invocation returns, or rejects with its error
QuoteReturn ==
    /\ quoteCall.pc \in {"done", "failed"}
    /\ quoteCall' = IdleQuoteCall
    /\ UNCHANGED <<clients, seqClient, clientCall, clientOps, quotes, seqQuote, quoteOps>>
    /\ UNCHANGED <<purchases, orderDetails, purchasing, catalogue, others, editing, harness>>

\* quotes are created, updated and deleted while one caller manages the clients
NextQuotes ==
    \/ \E request \in QuoteRequests : CreateQuote(request)
    \/ \E id \in QuoteIds : \E request \in UpdateQuoteRequests : UpdateQuote(id, request)
    \/ \E id \in QuoteIds : DeleteQuote(id)
    \/ QuoteWrite
    \/ QuoteReturn
    \/ Clienting("c1")

SpecQuotes == Init /\ [][NextQuotes]_vars

-----------------------------------------------------------------------------
(* Specification of the workflow *)

\* one step of an invocation of createPurchase by caller c
Purchasing(c) ==
    \/ \E request \in Requests : CreatePurchase(c, request)
    \/ ValidateItem(c)
    \/ \E r \in ExternalReferences : CreateHeader(c, r)
    \/ CreateOrderDetail(c)
    \/ CallGateway(c)
    \/ UpdateHeader(c)
    \/ Commit(c)

\* concurrent checkouts
Next == \E c \in Callers : Purchasing(c)

Spec == Init /\ [][Next]_vars

\* checkouts of one caller while the catalogue is edited
NextCatalog ==
    \/ Purchasing("c1")
    \/ \E id \in ProductIds : \E u \in UpdateProductRequests : UpdateProduct(id, u)
    \/ \E id \in ProductIds : DeleteProduct(id)

SpecCatalog == Init /\ [][NextCatalog]_vars

\* checkouts of one caller while the purchase store is read and reconciled
NextReaders ==
    \/ Purchasing("c1")
    \/ \E all \in BOOLEAN : ReadPurchases(all, Email)
    \/ ReadOrderDetails
    \/ ReaderReturn
    \/ \E t \in ReconTransactionIds : \E st \in ReconStatuses :
           \E r \in ExternalReferences \cup {NoReference} : UpdatePaymentStatus(t, st, r)
    \/ FindByReference
    \/ UpdateStatus
    \/ ReconReturn

SpecReaders == Init /\ [][NextReaders]_vars

\* checkouts of one caller while buyers' data are edited and payments reconciled
NextEdits ==
    \/ Purchasing("c1")
    \/ \E id \in EditPurchaseIds : \E data \in UpdatePurchaseDatas : UpdatePurchase(id, data)
    \/ EditWrite
    \/ EditReturn
    \/ \E t \in ReconTransactionIds : \E st \in ReconStatuses :
           \E r \in ExternalReferences \cup {NoReference} : UpdatePaymentStatus(t, st, r)
    \/ FindByReference
    \/ UpdateStatus
    \/ ReconReturn

SpecEdits == Init /\ [][NextEdits]_vars

-----------------------------------------------------------------------------
(* Specification of the reconciliation of a store that holds two purchases *)

\* the committed header of a finished createPurchase
committedPurchase(id, request, validatedItems, externalReference, transactionId) ==
    purchaseWithWompi(
        purchaseData(id, request, SumTotalPrice(validatedItems), externalReference),
        transactionId)

\* the cart of one Lamp, validated against the initial catalogue
OneLamp == <<validatedItem(Item(1, 1, NoColor), getById(InitialProducts, 1))>>

\* the cart of one Lamp and three Desks
LampAndDesks ==
    <<validatedItem(Item(1, 1, NoColor), getById(InitialProducts, 1)),
      validatedItem(Item(2, 3, NoColor), getById(InitialProducts, 2))>>

\* transaction ids a gateway callback may carry: none (the empty string), those
\* of the two purchases, and one no purchase has
CallbackTransactionIds == {0, 1, 2, 3}

\* two createPurchase calls have committed, with the references a and b and the
\* gateway's transaction ids 1 and 2; no invocation is in progress
InitReconciliation ==
    /\ products = InitialProducts
    /\ \E a \in ExternalReferences : \E b \in ExternalReferences :
           /\ purchases =
                  { committedPurchase(1, Request(GoodBuyer, <<Item(1, 1, NoColor)>>),
                                      OneLamp, a, 1),
                    committedPurchase(2, Request(GoodBuyer, <<Item(1, 1, NoColor),
                                                              Item(2, 3, NoColor)>>),
                                      LampAndDesks, b, 2) }
           /\ gateway =
                  { [transactionId |-> 1, externalReference |-> a,
                     amount |-> SumTotalPrice(OneLamp)],
                    [transactionId |-> 2, externalReference |-> b,
                     amount |-> SumTotalPrice(LampAndDesks)] }
    /\ orderDetails =
           { orderDetailData(1, 1, OneLamp[1]),
             orderDetailData(2, 2, LampAndDesks[1]),
             orderDetailData(3, 2, LampAndDesks[2]) }
    /\ seqPurchase = 3
    /\ seqDetail = 4
    /\ tx = [c \in Callers |-> NoTx]
    /\ call = [c \in Callers |-> IdleCall]
    /\ cartSize = <<1, 2>>
    /\ catalogOps = 0
    /\ soldThenEdited = FALSE
    /\ reader = IdleReader
    /\ recon = IdleRecon
    /\ recons = 0
    /\ edit = IdleEdit
    /\ edits = 0
    /\ InitOffice
    /\ vreq = NoRequest
    /\ vres = NoError

NextReconciliation ==
    \/ \E t \in CallbackTransactionIds : \E st \in ReconStatuses :
           \E r \in ExternalReferences \cup {NoReference} : UpdatePaymentStatus(t, st, r)
    \/ FindByReference
    \/ UpdateStatus
    \/ ReconReturn

SpecReconciliation == InitReconciliation /\ [][NextReconciliation]_vars

-----------------------------------------------------------------------------
(* Specification of validatePurchaseRequest alone *)

EmailChars == {"a", "@", ".", " "}

Pending == [type |-> "pending", message |-> ""]

InitValidate ==
    /\ products = InitialProducts
    /\ purchases = {}
    /\ orderDetails = {}
    /\ seqPurchase = 1
    /\ seqDetail = 1
    /\ tx = [c \in Callers |-> NoTx]
    /\ gateway = {}
    /\ call = [c \in Callers |-> IdleCall]
    /\ cartSize = <<>>
    /\ catalogOps = 0
    /\ soldThenEdited = FALSE
    /\ reader = IdleReader
    /\ recon = IdleRecon
    /\ recons = 0
    /\ edit = IdleEdit
    /\ edits = 0
    /\ InitOffice
    /\ vreq \in
         { Request(Buyer(email, name, identification, contact), items) :
             email \in Seqs(EmailChars, MaxEmailLen),
             name \in {<<>>, <<"J">>, <<" ", "J", " ">>, <<"J", "o">>},
             identification \in {<<>>, Repeat("1", MinIdentificationLen - 1),
                                 Repeat("1", MinIdentificationLen)},
             contact \in {<<>>, Repeat("3", MinContactLen - 1),
                          Repeat("3", MinContactLen)},
             items \in {<<>>, <<Item(1, 1, NoColor)>>} }
    /\ vres = Pending

Validate ==
    /\ vres = Pending
    /\ vres' = validatePurchaseRequest(vreq)
    /\ UNCHANGED <<purchases, orderDetails, purchasing>>
    /\ UNCHANGED <<catalogue, others, editing, office, vreq>>

NextValidate == Validate

SpecValidate == InitValidate /\ [][NextValidate]_vars

-----------------------------------------------------------------------------
(* Specification of the checks of one cart item alone *)

\* every variable but the harness, as after construction
InitWorkflow ==
    /\ products = InitialProducts
    /\ purchases = {}
    /\ orderDetails = {}
    /\ seqPurchase = 1
    /\ seqDetail = 1
    /\ tx = [c \in Callers |-> NoTx]
    /\ gateway = {}
    /\ call = [c \in Callers |-> IdleCall]
    /\ cartSize = <<>>
    /\ catalogOps = 0
    /\ soldThenEdited = FALSE
    /\ reader = IdleReader
    /\ recon = IdleRecon
    /\ recons = 0
    /\ edit = IdleEdit
    /\ edits = 0
    /\ InitOffice

ColorChars == {" ", "a", "A'", "z"}

\* colour lists a product may hold: none, plain, several, and names stored with
\* accents or surrounding space
ProductColorLists ==
    { <<>>, << <<"A">> >>, << <<"Z">>, <<"A'", "Z">> >>, << <<" ", "a'", " ">> >> }

InitColor ==
    /\ InitWorkflow
    /\ vreq \in
         { [item |-> Item(1, 1, color),
            product |-> Product(1, "Lamp", 1050, "available", colors)] :
             color \in Seqs(ColorChars, MaxColorLen), colors \in ProductColorLists }
    /\ vres = Pending

\* one iteration of validateAndCalculateItems on the product getById returned
ValidateColor ==
    /\ vres = Pending
    /\ vres' = itemError(vreq.item, vreq.product)
    /\ UNCHANGED <<purchases, orderDetails, purchasing>>
    /\ UNCHANGED <<catalogue, others, editing, office, vreq>>

NextColor == ValidateColor

SpecColor == InitColor /\ [][NextColor]_vars

-----------------------------------------------------------------------------
(* The handler of POST /payment/create: its catch block *)

\* the text of an error message, word by word (the id, the name and the colour
\* a message quotes are left out)
messageWords(message) ==
    CASE message = "At least one item is required" ->
             <<"At", "least", "one", "item", "is", "required">>
      [] message = "Invalid email format" -> <<"Invalid", "email", "format">>
      [] message = "Buyer name must be at least 2 characters long" ->
             <<"Buyer", "name", "must", "be", "at", "least", "2", "characters", "long">>
      [] message = "Identification number must be at least 6 characters long" ->
             <<"Identification", "number", "must", "be", "at", "least", "6",
               "characters", "long">>
      [] message = "Contact number must be at least 10 characters long" ->
             <<"Contact", "number", "must", "be", "at", "least", "10", "characters", "long">>
      [] message = "Quantity must be greater than 0 for product" ->
             <<"Quantity", "must", "be", "greater", "than", "0", "for", "product">>
      [] message = "Product not found" -> <<"Product", "not", "found">>
      [] message = "Product is not available" -> <<"Product", "is", "not", "available">>
      [] message = "Color not available" -> <<"Color", "not", "available", "for">>
      [] OTHER -> <<message>>

\* String.prototype.includes, on whole words
includes(words, needle) ==
    \E i \in 1..(Len(words) - Len(needle) + 1) :
        SubSeq(words, i, i + Len(needle) - 1) = needle

\* what createPurchase threw, as the catch block sees it
Thrown(type, words) == [type |-> type, message |-> words]

validationErrorResponse(errors) == [kind |-> "validationError", errors |-> errors]

internalServerErrorResponse(message) == [kind |-> "internalServerError", errors |-> <<message>>]

GenericFailure == <<"Failed", "to", "create", "payment.", "Please", "try", "again", "later.">>

\* the catch block of funcCreatePayment: it decides on the text of the message
funcCreatePaymentCatch(error) ==
    IF includes(error.message, <<"not", "found">>)
           \/ includes(error.message, <<"not", "available">>)
    THEN validationErrorResponse(<<error.message>>)
    ELSE IF includes(error.message, <<"Invalid">>) \/ includes(error.message, <<"must", "be">>)
    THEN validationErrorResponse(<<error.message>>)
    ELSE internalServerErrorResponse(GenericFailure)

\* the validation errors createPurchase throws for a request the handler lets
\* through (the handler itself answers an empty items array)
ServiceValidationErrors ==
    {ErrEmail, ErrName, ErrIdentification, ErrContact, ErrQuantity, ErrNotFound,
     ErrNotAvailable, ErrColor}

\* the failures of the store and of the gateway as the workflow names them
ServiceInfraErrors ==
    {ErrPurchaseCreate, ErrOrderDetailCreate, ErrGateway, ErrPurchaseUpdate, ErrCommit}

\* words the message of a store, transaction or gateway error may be made of
MessageWords == {"Invalid", "not", "found", "timeout"}

InitHandler ==
    /\ InitWorkflow
    /\ vreq \in
         {Thrown(e.type, messageWords(e.message)) :
              e \in ServiceValidationErrors \cup ServiceInfraErrors}
             \cup {Thrown("Error", words) : words \in Seqs(MessageWords, MaxMessageLen)}
    /\ vres = Pending

\* createPurchase rejected with vreq; the catch block answers
HandleFailure ==
    /\ vres = Pending
    /\ vres' = funcCreatePaymentCatch(vreq)
    /\ UNCHANGED <<purchases, orderDetails, purchasing>>
    /\ UNCHANGED <<catalogue, others, editing, office, vreq>>

NextHandler == HandleFailure

SpecHandler == InitHandler /\ [][NextHandler]_vars

-----------------------------------------------------------------------------
(* Properties *)

Settled(c) == call[c].pc \in {"done", "failed"}

\* no committed row carries the purchase id of caller c's attempt
NothingPersists(c) ==
    /\ \A p \in purchases : p.id # call[c].purchaseId
    /\ \A d \in orderDetails : d.purchaseId # call[c].purchaseId

\* C1: when createPayment throws during createPurchase, after the header and the
\* lines were written in the open transaction, createPurchase fails and no
\* Purchase row and no OrderDetail row of that attempt is committed.
C1_GatewayFailureRollsBack ==
    \A c \in Callers :
        call[c].raised = ErrGateway =>
            /\ call[c].pc = "failed"
            /\ call[c].error # NoError
            /\ NothingPersists(c)

\* C1 witness: a gateway failure of an attempt that had written its header and
\* one line per cart item
C1_Witness ==
    \E c \in Callers :
        /\ call[c].raised = ErrGateway
        /\ call[c].purchaseId # 0
        /\ call[c].writes = 1 + Len(call[c].request.items)

Quiescent == \A c \in Callers : call[c].pc \in {"idle", "done", "failed"}

\* C2: once every createPurchase has ended, a payment transaction exists at the
\* gateway for an external reference exactly when a committed Purchase carries
\* that reference and that transaction id.
C2_StoreAndGatewayAgree ==
    Quiescent =>
        /\ \A t \in gateway : \E p \in purchases :
               /\ p.externalReference = t.externalReference
               /\ p.wompiTransactionId = t.transactionId
        /\ \A p \in purchases : \E t \in gateway :
               /\ p.externalReference = t.externalReference
               /\ p.wompiTransactionId = t.transactionId

WriteErrors == {ErrPurchaseCreate, ErrOrderDetailCreate, ErrPurchaseUpdate}

\* C3: when a write inside the transaction fails (header insert, line insert,
\* header update), createPurchase fails with that same error and no row of the
\* attempt is committed.
C3_WriteFailureRollsBack ==
    \A c \in Callers :
        call[c].raised \in WriteErrors =>
            /\ call[c].pc = "failed"
            /\ call[c].error = call[c].raised
            /\ tx[c] = NoTx
            /\ NothingPersists(c)

\* C3 witness: the header update failed after the header, the lines and the
\* gateway call had succeeded
C3_Witness ==
    \E c \in Callers :
        /\ call[c].pc = "failed"
        /\ call[c].raised = ErrPurchaseUpdate
        /\ call[c].writes = 1 + Len(call[c].request.items)
        /\ call[c].payments = 1

\* the purchase with this id is committed whole: it carries a transaction id and
\* one line per cart item, and no open transaction holds it
Whole(id, txid, lines) ==
    /\ txid # 0
    /\ lines = cartSize[id]
    /\ \E p \in purchases : p.id = id
    /\ \A c \in Callers : \A p \in tx[c].purchases : p.id # id

C5_AmountIsSumOfLines ==
    \A p \in purchases :
        p.amount * 100 = SumTotalPrice(detailsOf(p.id, orderDetails))

\* C6: for a successful createPurchase the returned totalAmount is the sum of
\* the returned items' totalPrice, and each returned item's totalPrice is its
\* unitPrice times its quantity, the unitPrice being the catalogue price read for
\* that item during validation.
C6_ResponseTotals ==
    \A c \in Callers :
        call[c].pc = "done" =>
            LET r == call[c].response
            IN  /\ r.success
                /\ r.totalAmount = SumTotalPrice(r.items)
                /\ Len(r.items) = Len(call[c].request.items)
                /\ \A i \in 1..Len(r.items) :
                       /\ r.items[i].quantity = call[c].request.items[i].quantity
                       /\ r.items[i].totalPrice = r.items[i].unitPrice * r.items[i].quantity
                       /\ r.items[i].unitPrice = call[c].validatedItems[i].product.price

\* C6 witness: a successful call for a cart of two products whose total is not a
\* whole number of pesos
C6_Witness ==
    \E c \in Callers :
        /\ call[c].pc = "done"
        /\ Len(call[c].response.items) = 2
        /\ call[c].response.totalAmount % 100 # 0

\* C7: a successful createPurchase for a cart of N items commits one Purchase and
\* N OrderDetail rows referencing it, the i-th carrying the product name, the
\* quantity, the unit price, the total price and the colour of the i-th item;
\* and nothing else is committed.
C7_OneHeaderNLines ==
    /\ Cardinality(purchases) = Cardinality({c \in Callers : call[c].pc = "done"})
    /\ \A d \in orderDetails :
           \E c \in Callers : call[c].pc = "done" /\ call[c].purchaseId = d.purchaseId
    /\ \A c \in Callers :
           call[c].pc = "done" =>
               LET rows == detailsOf(call[c].purchaseId, orderDetails)
                   items == call[c].request.items
                   v == call[c].validatedItems
               IN  /\ Cardinality({p \in purchases : p.id = call[c].purchaseId}) = 1
                   /\ Len(rows) = Len(items)
                   /\ \A i \in 1..Len(rows) :
                          /\ rows[i].productName = v[i].product.name
                          /\ rows[i].quantity = items[i].quantity
                          /\ rows[i].unitPrice = v[i].product.price
                          /\ rows[i].totalPrice = v[i].product.price * items[i].quantity
                          /\ rows[i].selectedColor = items[i].selectedColor

\* C7 witness: a committed cart that repeats a product, while the other caller
\* has committed too
C7_Witness ==
    \E c \in Callers :
        /\ call[c].pc = "done"
        /\ Len(call[c].request.items) = 2
        /\ call[c].request.items[1].productId = call[c].request.items[2].productId
        /\ \A o \in Callers : call[o].pc = "done"

\* C8: a catalogue mutation (updateProduct, deleteProduct) changes no Purchase
\* row and no OrderDetail row.
C8_CatalogueEditsKeepHistory ==
    [][catalogOps' # catalogOps =>
           purchases' = purchases /\ orderDetails' = orderDetails]_vars

\* C8 witness: after a catalogue mutation that ran while order lines existed, a
\* committed line names a product that the catalogue no longer holds with that
\* name and price
C8_Witness ==
    /\ soldThenEdited
    /\ \E d \in orderDetails :
           \A p \in products : p.name # d.productName \/ p.price # d.unitPrice

\* the shape local@domain.tld: no white space, exactly one "@", which is not the
\* first character, and after it a "." that neither follows the "@" directly nor
\* ends the text
EmailShape(s) ==
    /\ \A k \in 1..Len(s) : s[k] # " "
    /\ Cardinality({k \in 1..Len(s) : s[k] = "@"}) = 1
    /\ LET at == CHOOSE k \in 1..Len(s) : s[k] = "@"
       IN  /\ at > 1
           /\ \E j \in (at + 2)..(Len(s) - 1) : s[j] = "."

\* the rules of request-level validation, in their order
RuleViolations(r) ==
    << Len(r.items) = 0,
       ~EmailShape(r.buyerEmail),
       Len(trim(r.buyerName)) < 2,
       Len(r.buyerIdentificationNumber) < 6,
       Len(r.buyerContactNumber) < 10 >>

RuleErrors == <<ErrEmptyCart, ErrEmail, ErrName, ErrIdentification, ErrContact>>

WellFormed(r) == \A k \in 1..5 : ~RuleViolations(r)[k]

\* C9: a createPurchase whose request fails request-level validation fails with
\* a validation error having made no catalogue lookup, no store write and no
\* gateway call.
C9_InvalidRequestTouchesNothing ==
    \A c \in Callers :
        (call[c].pc # "idle" /\ ~WellFormed(call[c].request)) =>
            /\ call[c].pc = "failed"
            /\ call[c].error.type = "ValidationError"
            /\ call[c].lookups = 0
            /\ call[c].writes = 0
            /\ call[c].payments = 0
            /\ call[c].purchaseId = 0
            /\ tx[c] = NoTx

\* C9 witness: a call rejected for its contact number alone while the other
\* caller has written rows
C9_Witness ==
    \E c \in Callers : \E o \in Callers :
        /\ call[c].pc = "failed"
        /\ RuleViolations(call[c].request) = <<FALSE, FALSE, FALSE, FALSE, TRUE>>
        /\ call[o].writes > 0

\* C10: validatePurchaseRequest accepts exactly the requests that violate no
\* rule, and otherwise reports the error of the first violated rule in the order
\* items, email, name, identification, contact.
C10_ValidationVerdict ==
    vres # Pending =>
        /\ (vres = NoError) <=> WellFormed(vreq)
        /\ \A k \in 1..5 :
               (RuleViolations(vreq)[k] /\ \A j \in 1..(k - 1) : ~RuleViolations(vreq)[j])
                   => vres = RuleErrors[k]

\* C10 witness: a request that violates the email, the name and the contact
\* rule is rejected for its email
C10_Witness ==
    /\ vres = ErrEmail
    /\ RuleViolations(vreq) = <<FALSE, TRUE, TRUE, FALSE, TRUE>>

\* the position of the first item whose quantity is missing or not positive
FirstNonPositive(items) ==
    CHOOSE k \in 1..Len(items) :
        items[k].quantity <= 0 /\ \A j \in 1..(k - 1) : items[j].quantity > 0

Base(ch) ==
    IF ch \in {"a", "a'", "A", "A'"} THEN "A"
    ELSE IF ch \in {"z", "Z"} THEN "Z"
    ELSE ch

\* a text without the white space that surrounds it
Core(s) ==
    LET inked == {k \in 1..Len(s) : s[k] # " "}
    IN  IF inked = {} THEN <<>>
        ELSE SubSeq(s, CHOOSE k \in inked : \A j \in inked : k <= j,
                       CHOOSE k \in inked : \A j \in inked : j <= k)

\* two colour names that differ at most by case, accents and surrounding space
SameColor(a, b) ==
    /\ Len(Core(a)) = Len(Core(b))
    /\ \A k \in 1..Len(Core(a)) : Base(Core(a)[k]) = Base(Core(b)[k])

\* the product of the catalogue prods an item names is not available
Unavailable(item, prods) ==
    \E p \in prods : p.id = item.productId /\ p.status # "available"

\* an item the cart rules reject against the catalogue prods
Offends(item, prods) ==
    \/ item.quantity <= 0
    \/ \A p \in prods : p.id # item.productId
    \/ Unavailable(item, prods)
    \/ /\ item.selectedColor # <<>>
       /\ \A p \in prods : p.id = item.productId =>
              \A k \in 1..Len(p.colors) : ~SameColor(p.colors[k], item.selectedColor)

\* C12 (as worded): a createPurchase for a cart holding an unavailable product
\* fails with the product-unavailable error, whatever the other items are.
C12_UnavailableAlwaysReported ==
    \A c \in Callers :
        LET items == call[c].request.items
        IN  (/\ Settled(c)
             /\ WellFormed(call[c].request)
             /\ \E k \in 1..Len(items) : Unavailable(items[k], products)) =>
                call[c].pc = "failed" /\ call[c].error = ErrNotAvailable

\* C12 (amended): a createPurchase for a cart holding an unavailable product
\* always fails with a validation error and writes nothing; the error is the
\* product-unavailable one when the unavailable item has a positive quantity
\* and no item before it offends.
C12_UnavailableCartFails ==
    \A c \in Callers :
        LET items == call[c].request.items
        IN  (/\ Settled(c)
             /\ WellFormed(call[c].request)
             /\ \E k \in 1..Len(items) : Unavailable(items[k], products)) =>
                /\ call[c].pc = "failed"
                /\ call[c].error.type = "ValidationError"
                /\ call[c].writes = 0
                /\ \A k \in 1..Len(items) :
                       (/\ Unavailable(items[k], products)
                        /\ items[k].quantity > 0
                        /\ \A j \in 1..(k - 1) : ~Offends(items[j], products))
                           => call[c].error = ErrNotAvailable

\* C12 witness: a cart whose second item is the unavailable product, after a
\* valid first item, failed with the product-unavailable error
C12_Witness ==
    \E c \in Callers :
        /\ call[c].pc = "failed"
        /\ call[c].error = ErrNotAvailable
        /\ Len(call[c].request.items) = 2
        /\ Unavailable(call[c].request.items[2], products)
        /\ call[c].lookups = 2

\* C13: an item with a selectedColor passes the colour check exactly when its
\* selection equals a colour of the product up to case, accents and surrounding
\* white space, and fails with the colour-not-available error otherwise (so
\* always against a product without colours); an item without selectedColor
\* skips the check.
C13_ColorCheck ==
    vres # Pending =>
        LET sel == vreq.item.selectedColor
            cols == vreq.product.colors
        IN  IF sel = <<>> THEN vres = NoError
            ELSE /\ (vres = NoError) <=> \E k \in 1..Len(cols) : SameColor(cols[k], sel)
                 /\ vres \in {NoError, ErrColor}

\* C13 witness: the selection " az" passed against a product that stores the
\* colour as "A'Z" (accented, upper case)
C13_Witness ==
    /\ vres = NoError
    /\ vreq.item.selectedColor = <<" ", "a", "z">>
    /\ \E k \in 1..Len(vreq.product.colors) : vreq.product.colors[k] = <<"A'", "Z">>

\* C14: a createPurchase whose cart fails validation (invalid quantity, product
\* not found, product not available, colour not available) fails with a
\* validation error having written no row and made no gateway call, and the
\* step on which it fails leaves the catalogue, the Purchase table, the
\* OrderDetail table and the gateway as they were.
C14_CartFailurePersistsNothing ==
    /\ [](\A c \in Callers :
             LET items == call[c].request.items
             IN  (/\ call[c].pc # "idle"
                  /\ WellFormed(call[c].request)
                  /\ \E k \in 1..Len(items) : Offends(items[k], products)) =>
                     /\ call[c].pc \in {"validating", "failed"}
                     /\ call[c].pc = "failed" => call[c].error.type = "ValidationError"
                     /\ call[c].writes = 0
                     /\ call[c].payments = 0
                     /\ call[c].purchaseId = 0
                     /\ tx[c] = NoTx)
    /\ [][\A c \in Callers :
             (call[c].pc = "validating" /\ call'[c].pc = "failed") =>
                 /\ products' = products
                 /\ purchases' = purchases
                 /\ orderDetails' = orderDetails
                 /\ gateway' = gateway
                 /\ tx' = tx]_vars

\* C14 witness: a cart failed on its colour after one lookup while the purchase
\* of the other caller is committed
C14_Witness ==
    \E c \in Callers :
        /\ call[c].pc = "failed"
        /\ call[c].error = ErrColor
        /\ call[c].lookups = 1
        /\ purchases # {}
        /\ orderDetails # {}

\* C15: after a successful createPurchase the committed Purchase is PENDING /
\* PENDING, in COP, provided by WOMPI, carries the buyer fields of the request
\* and a non-empty externalReference, the one handed to the gateway, and both
\* its preference id and its transaction id are the id the gateway returned for
\* that reference, which is the id returned to the caller.
C15_CommittedHeader ==
    \A c \in Callers :
        call[c].pc = "done" =>
            \E p \in purchases :
                /\ p.id = call[c].purchaseId
                /\ p.id = call[c].response.purchaseId
                /\ p.status = "PENDING"
                /\ p.orderStatus = "PENDING"
                /\ p.currency = "COP"
                /\ p.paymentProvider = "WOMPI"
                /\ p.buyerEmail = call[c].request.buyerEmail
                /\ p.buyerName = call[c].request.buyerName
                /\ p.buyerIdentificationNumber = call[c].request.buyerIdentificationNumber
                /\ p.buyerContactNumber = call[c].request.buyerContactNumber
                /\ p.externalReference # ""
                /\ \E t \in gateway :
                       /\ t.externalReference = p.externalReference
                       /\ t.transactionId # 0
                       /\ p.preferenceId = t.transactionId
                       /\ p.wompiTransactionId = t.transactionId
                       /\ call[c].response.wompiTransactionId = t.transactionId

\* C15 witness: both callers succeeded, with different transaction ids
C15_Witness ==
    /\ \A c \in Callers : call[c].pc = "done"
    /\ \E p \in purchases : \E q \in purchases :
           p.wompiTransactionId # q.wompiTransactionId

\* C16: an updatePaymentStatus whose transaction id matches no committed
\* Purchase goes on to the external reference, if one is given, without
\* changing a row; and when the reference (or its absence) matches no committed
\* Purchase either, the call returns normally, having selected no Purchase and
\* changed no Purchase and no OrderDetail row. Rows of a createPurchase still in
\* flight do not count as matches.
C16_UnmatchedIsNoOp ==
    [][/\ (/\ recon.pc = "idle"
           /\ recon'.pc # "idle"
           /\ \A p \in purchases : p.wompiTransactionId # recon'.wompiTransactionId) =>
              /\ recon'.purchaseId = 0
              /\ recon'.pc = IF recon'.externalReference = NoReference
                             THEN "returned" ELSE "byReference"
              /\ purchases' = purchases
              /\ orderDetails' = orderDetails
       /\ (/\ recon.pc = "byReference"
           /\ recon' # recon
           /\ \A p \in purchases : p.externalReference # recon.externalReference) =>
              /\ recon'.purchaseId = 0
              /\ recon'.pc = "returned"
              /\ purchases' = purchases
              /\ orderDetails' = orderDetails
       /\ (recon.pc = "returned" /\ recon.purchaseId = 0 /\ recon' # recon) =>
              /\ recon' = IdleRecon
              /\ purchases' = purchases
              /\ orderDetails' = orderDetails]_vars

\* C16 witness: a call returned without a match while the createPurchase in
\* flight holds, uncommitted, the row with that reference and that transaction id
C16_Witness ==
    /\ recon.pc = "returned"
    /\ recon.purchaseId = 0
    /\ purchases = {}
    /\ \E c \in Callers : \E row \in tx[c].purchases :
           /\ row.externalReference = recon.externalReference
           /\ row.wompiTransactionId = recon.wompiTransactionId

\* the moves of the documented state machine of Purchase.status
StatusMoves ==
    ({"PENDING"} \X {"APPROVED", "REJECTED", "FAILED", "CANCELLED"})
        \cup ({"APPROVED", "REJECTED", "FAILED", "CANCELLED"} \X {"COMPLETED"})

\* C17: the status of a Purchase only changes along the documented state
\* machine: PENDING to APPROVED, REJECTED, FAILED or CANCELLED, and from one of
\* these to COMPLETED.
C17_StatusFollowsStateMachine ==
    [][\A p \in purchases : \A q \in purchases' :
           (p.id = q.id /\ p.status # q.status) => <<p.status, q.status>> \in StatusMoves]_vars

\* C18: every committed Purchase has a non-empty externalReference, no two
\* Purchases share one, and no externalReference is handed to the gateway twice.
C18_ReferencesUnique ==
    /\ \A p \in purchases : p.externalReference # ""
    /\ \A p \in purchases : \A q \in purchases :
           p.id # q.id => p.externalReference # q.externalReference
    /\ \A t \in gateway : \A u \in gateway :
           t.transactionId # u.transactionId => t.externalReference # u.externalReference

\* C19: the handler answers a failed createPurchase with a validation-error
\* response exactly when the failure is a ValidationError; any other failure,
\* whatever its message, gets the internal-server-error response with the
\* generic message and nothing of the error's own message.
C19_ErrorMapping ==
    vres # Pending =>
        /\ (vres.kind = "validationError") <=> (vreq.type = "ValidationError")
        /\ vreq.type # "ValidationError" =>
               vres = internalServerErrorResponse(GenericFailure)

\* an edit updatePurchase must refuse: no such Purchase, a malformed new email,
\* or a new name shorter than 2 characters once trimmed
EditOffends(id, data) ==
    \/ \A p \in purchases : p.id # id
    \/ /\ "buyerEmail" \in DOMAIN data
       /\ ~EmailShape(data.buyerEmail)
    \/ /\ "buyerName" \in DOMAIN data
       /\ Len(Core(data.buyerName)) < 2

\* two versions of a Purchase that differ at most in the email, the name and the
\* contact number of the buyer
SameButBuyer(p, q) ==
    /\ q.id = p.id
    /\ q.buyerIdentificationNumber = p.buyerIdentificationNumber
    /\ q.status = p.status
    /\ q.orderStatus = p.orderStatus
    /\ q.amount = p.amount
    /\ q.currency = p.currency
    /\ q.paymentProvider = p.paymentProvider
    /\ q.externalReference = p.externalReference
    /\ q.preferenceId = p.preferenceId
    /\ q.wompiTransactionId = p.wompiTransactionId

\* C20: a step of updatePurchase changes no OrderDetail row and no Purchase
\* other than the addressed one, of which it changes at most buyerEmail,
\* buyerName and buyerContactNumber; an edit of a Purchase that does not exist,
\* with a malformed email or with a name shorter than 2 characters after
\* trimming fails, and a failing updatePurchase leaves the store unchanged.
C20_EditTouchesBuyerFieldsOnly ==
    [][edit' # edit =>
           /\ orderDetails' = orderDetails
           /\ Cardinality(purchases') = Cardinality(purchases)
           /\ \A p \in purchases : \E q \in purchases' :
                  /\ SameButBuyer(p, q)
                  /\ p.id # edit.purchaseId => q = p
           /\ (edit.pc = "idle" /\ EditOffends(edit'.purchaseId, edit'.data)) =>
                  /\ edit'.pc = "failed"
                  /\ edit'.error # NoError
           /\ (edit.pc = "failed" \/ edit'.pc = "failed") => purchases' = purchases]_vars

\* the same, for the edits whose new email and new name are not empty
C20_NonEmptyEditTouchesBuyerFieldsOnly ==
    [][edit' # edit =>
           /\ orderDetails' = orderDetails
           /\ Cardinality(purchases') = Cardinality(purchases)
           /\ \A p \in purchases : \E q \in purchases' :
                  /\ SameButBuyer(p, q)
                  /\ p.id # edit.purchaseId => q = p
           /\ ( /\ edit.pc = "idle"
                /\ EditOffends(edit'.purchaseId, edit'.data)
                /\ \A f \in DOMAIN edit'.data : edit'.data[f] # <<>> ) =>
                  /\ edit'.pc = "failed"
                  /\ edit'.error # NoError
           /\ (edit.pc = "failed" \/ edit'.pc = "failed") => purchases' = purchases]_vars

\* an edit with an empty new name has been accepted and has written the
\* contact number
C20_EmptyNameAccepted ==
    /\ edit.pc = "returned"
    /\ "buyerName" \in DOMAIN edit.data
    /\ edit.data.buyerName = <<>>
    /\ \E p \in purchases : p.id = edit.purchaseId /\ p.buyerContactNumber = <<"9">>

\* C20 witness: an edit has renamed the buyer of a Purchase that a
\* reconciliation had approved
C20_Witness ==
    /\ edit.pc = "returned"
    /\ \E p \in purchases :
           /\ p.id = edit.purchaseId
           /\ p.buyerName = <<"N", "e", "w">>
           /\ p.status = "APPROVED"
           /\ p.buyerEmail = call["c1"].request.buyerEmail


\* C21: in a successful createPurchase the amount handed to createPayment, the
\* amount of the committed Purchase and the totalAmount returned to the caller
\* are one value, the sum of the validated items' totalPrice rounded to whole
\* pesos.
C21_OneTotalEverywhere ==
    \A c \in Callers :
        call[c].pc = "done" =>
            \E p \in purchases : \E t \in gateway :
                /\ p.id = call[c].purchaseId
                /\ t.transactionId = call[c].response.wompiTransactionId
                /\ p.amount = MathRound(SumTotalPrice(call[c].validatedItems))
                /\ t.amount = p.amount * 100
                /\ call[c].response.totalAmount = p.amount * 100


\* the position of the first item of a cart that offends against the catalogue
FirstOffending(items, prods) ==
    CHOOSE k \in 1..Len(items) :
        Offends(items[k], prods) /\ \A j \in 1..(k - 1) : ~Offends(items[j], prods)

\* the error due for an offending item: the checks are ordered quantity,
\* existence, availability, colour
ErrorDue(item, prods) ==
    IF item.quantity <= 0 THEN ErrQuantity
    ELSE IF \A p \in prods : p.id # item.productId THEN ErrNotFound
    ELSE IF Unavailable(item, prods) THEN ErrNotAvailable
    ELSE ErrColor

\* C22: cart validation goes through the cart in order and stops at the first
\* offending item: it fails with the error due for that item (checks ordered
\* quantity, existence, availability, colour), it has looked up the items
\* before it and that item only if its quantity was positive, and the call
\* never gets a validated list to price or to persist.
C22_FirstOffendingItemDecides ==
    \A c \in Callers :
        LET items == call[c].request.items
        IN  (/\ call[c].pc # "idle"
             /\ WellFormed(call[c].request)
             /\ \E k \in 1..Len(items) : Offends(items[k], products)) =>
                LET k == FirstOffending(items, products)
                IN  /\ call[c].pc \in {"validating", "failed"}
                    /\ Len(call[c].validatedItems) <= k - 1
                    /\ call[c].lookups <= k
                    /\ call[c].totalAmount = 0
                    /\ call[c].pc = "failed" =>
                           /\ call[c].error = ErrorDue(items[k], products)
                           /\ Len(call[c].validatedItems) = k - 1
                           /\ call[c].lookups =
                                  (k - 1) + (IF items[k].quantity > 0 THEN 1 ELSE 0)

\* C22 witness: a cart of an unknown product followed by an unavailable one
\* failed on the first, after one lookup
C22_Witness ==
    \E c \in Callers :
        /\ call[c].pc = "failed"
        /\ Len(call[c].request.items) = 2
        /\ Offends(call[c].request.items[1], products)
        /\ Unavailable(call[c].request.items[2], products)
        /\ call[c].error = ErrNotFound
        /\ call[c].lookups = 1


\* C23: the steps of a createPurchase keep their order.  createPayment is
\* invoked at most once, and only when validation has accepted every item and
\* the header and one line per item are written in the open transaction; the
\* header receives a transaction id, and the rows are committed, only after
\* createPayment has returned that id.
C23_StepsInOrder ==
    /\ [](\A c \in Callers :
             LET n == Len(call[c].request.items)
             IN  /\ call[c].payments <= 1
                 /\ tx[c].orderDetails # {} => tx[c].purchases # {}
                 /\ tx[c].purchases # {} =>
                        /\ call[c].pc \notin {"idle", "validating"}
                        /\ Len(call[c].validatedItems) = n
                 /\ call[c].payments = 1 => call[c].writes >= 1 + n
                 /\ \A row \in tx[c].purchases :
                        row.wompiTransactionId # 0 =>
                            /\ call[c].payments = 1
                            /\ \E t \in gateway :
                                   /\ t.transactionId = row.wompiTransactionId
                                   /\ t.externalReference = row.externalReference
                 /\ \A p \in purchases :
                        p.id = call[c].purchaseId =>
                            /\ call[c].pc = "done"
                            /\ call[c].payments = 1
                            /\ p.wompiTransactionId # 0)
    /\ [][\A c \in Callers :
             /\ call'[c].payments > call[c].payments =>
                    /\ call[c].lookups = Len(call[c].request.items)
                    /\ Cardinality(tx[c].purchases) = 1
                    /\ Cardinality(tx[c].orderDetails) = Len(call[c].request.items)
                    /\ \A d \in tx[c].orderDetails : d.purchaseId = call[c].purchaseId
                    /\ \A row \in tx[c].purchases : row.wompiTransactionId = 0
             /\ (\E p \in purchases' \ purchases : p.id = call[c].purchaseId) =>
                    /\ call[c].pc = "commit"
                    /\ \A row \in tx[c].purchases :
                           /\ row.wompiTransactionId # 0
                           /\ row.wompiTransactionId =
                                  call[c].wompiTransaction.transactionId]_vars

\* C23 witness: one caller has committed a cart of two items after its single
\* gateway call while the gateway call of the other caller failed
C23_Witness ==
    \E c \in Callers : \E o \in Callers :
        /\ call[c].pc = "done"
        /\ Len(call[c].request.items) = 2
        /\ call[c].payments = 1
        /\ call[o].raised = ErrGateway
        /\ call[o].payments = 1


\* the purchases that differ between two versions of the table
Touched(before, after) == {p \in before : p \notin after}

\* C24: updatePaymentStatus selects its target by priority.  When a committed
\* Purchase carries the given transaction id, such a Purchase is the target,
\* whatever Purchase the external reference names; otherwise, when a reference
\* is given and a committed Purchase carries it, such a Purchase is the target.
\* The update then rewrites the target and no other Purchase, and leaves it
\* with the given status and the given transaction id.
C24_TargetByPriority ==
    [][/\ (recon.pc = "idle" /\ recon'.pc # "idle") =>
              IF \E p \in purchases : p.wompiTransactionId = recon'.wompiTransactionId
              THEN /\ recon'.pc = "update"
                   /\ \E p \in purchases :
                          /\ p.id = recon'.purchaseId
                          /\ p.wompiTransactionId = recon'.wompiTransactionId
              ELSE /\ recon'.purchaseId = 0
                   /\ recon'.pc = IF recon'.externalReference = NoReference
                                  THEN "returned" ELSE "byReference"
       /\ (recon.pc = "byReference" /\ recon' # recon) =>
              IF \E p \in purchases : p.externalReference = recon.externalReference
              THEN /\ recon'.pc = "update"
                   /\ \E p \in purchases :
                          /\ p.id = recon'.purchaseId
                          /\ p.externalReference = recon.externalReference
              ELSE recon'.pc = "returned" /\ recon'.purchaseId = 0
       /\ (recon.pc = "update" /\ recon' # recon) =>
              /\ Cardinality(purchases') = Cardinality(purchases)
              /\ \A p \in Touched(purchases, purchases') : p.id = recon.purchaseId
              /\ Cardinality(Touched(purchases, purchases')) <= 1
              /\ \E q \in purchases' :
                     /\ q.id = recon.purchaseId
                     /\ q.status = recon.status
                     /\ q.wompiTransactionId = recon.wompiTransactionId]_vars

\* C24 witness: a call carrying the transaction id of purchase 1 and the
\* external reference of purchase 2 alone has updated purchase 1 and left
\* purchase 2 as it was
C24_Witness ==
    /\ recon.pc = "returned"
    /\ recon.purchaseId = 1
    /\ recon.wompiTransactionId = 1
    /\ recon.status = "REJECTED"
    /\ \E p \in purchases : \E q \in purchases :
           /\ p.id = 1
           /\ p.externalReference # recon.externalReference
           /\ p.status = "REJECTED"
           /\ q.id = 2
           /\ q.externalReference = recon.externalReference
           /\ q.status = "PENDING"


\* two versions of a Purchase that differ at most in the payment status and
\* the transaction id
SameButPayment(p, q) ==
    /\ q.id = p.id
    /\ q.buyerEmail = p.buyerEmail
    /\ q.buyerName = p.buyerName
    /\ q.buyerIdentificationNumber = p.buyerIdentificationNumber
    /\ q.buyerContactNumber = p.buyerContactNumber
    /\ q.orderStatus = p.orderStatus
    /\ q.amount = p.amount
    /\ q.currency = p.currency
    /\ q.paymentProvider = p.paymentProvider
    /\ q.externalReference = p.externalReference
    /\ q.preferenceId = p.preferenceId

\* C25: no step of updatePaymentStatus, whether it finds a Purchase or not,
\* changes an OrderDetail row, or the orderStatus, the amount, the currency, a
\* buyer field or the externalReference of a Purchase; only the status and the
\* transaction id of the Purchase it selected may change.
C25_ReconciliationFrame ==
    [][recon' # recon =>
           /\ orderDetails' = orderDetails
           /\ products' = products
           /\ Cardinality(purchases') = Cardinality(purchases)
           /\ \A p \in purchases : \E q \in purchases' :
                  /\ SameButPayment(p, q)
                  /\ p.id # recon.purchaseId => q = p
           /\ recon.pc # "update" => purchases' = purchases]_vars

\* C25 witness: a call has approved a Purchase found by its reference and given
\* it another transaction id; the orderStatus is still PENDING
C25_Witness ==
    /\ recon.pc = "returned"
    /\ \E p \in purchases :
           /\ p.id = recon.purchaseId
           /\ p.status = "APPROVED"
           /\ p.orderStatus = "PENDING"
           /\ p.wompiTransactionId = 3
           /\ p.preferenceId # 3


\* the catalogue row an item names
Named(item, prods) == CHOOSE p \in prods : p.id = item.productId

RECURSIVE CartTotal(_, _)
\* the price of a cart against the catalogue prods, in hundredths
CartTotal(items, prods) ==
    IF items = <<>> THEN 0
    ELSE Named(Head(items), prods).price * Head(items).quantity
             + CartTotal(Tail(items), prods)

\* the error a request earns on its own: that of the first violated request
\* rule, else that of the first offending item, else none
ErrorAlone(r, prods) ==
    IF ~WellFormed(r)
    THEN RuleErrors[CHOOSE k \in 1..5 :
                        RuleViolations(r)[k] /\ \A j \in 1..(k - 1) : ~RuleViolations(r)[j]]
    ELSE IF \E k \in 1..Len(r.items) : Offends(r.items[k], prods)
    THEN ErrorDue(r.items[FirstOffending(r.items, prods)], prods)
    ELSE NoError

\* the committed rows of the purchase with this id
RowsOf(id, purs, dets) ==
    [purchases |-> {p \in purs : p.id = id}, orderDetails |-> {d \in dets : d.purchaseId = id}]

\* C26: two concurrent createPurchase calls are independent.  Each ends as its
\* request alone decides: a request that earns a validation error fails with
\* it, and a call that succeeds returns the price of its own cart and has
\* committed its own header and lines; the lines a call writes reference the
\* header that call wrote; a call that fails on the store or the gateway leaves
\* no row of its own; and no step of a call changes the state, the open
\* transaction or the committed rows of the other call.
C26_ConcurrentCallsIndependent ==
    /\ [](\A c \in Callers :
             LET r == call[c].request
                 own == RowsOf(call[c].purchaseId, purchases, orderDetails)
             IN  /\ (Settled(c) /\ ErrorAlone(r, products) # NoError) =>
                        call[c].pc = "failed" /\ call[c].error = ErrorAlone(r, products)
                 /\ (call[c].pc = "failed" /\ call[c].error.type = "ValidationError") =>
                        call[c].error = ErrorAlone(r, products)
                 /\ call[c].pc = "done" =>
                        /\ call[c].response.totalAmount = CartTotal(r.items, products)
                        /\ Cardinality(own.purchases) = 1
                        /\ \A p \in own.purchases : p.buyerEmail = r.buyerEmail
                        /\ Cardinality(own.orderDetails) = Len(r.items)
                        /\ \A k \in 1..Len(r.items) : \E d \in own.orderDetails :
                               /\ d.productName = Named(r.items[k], products).name
                               /\ d.quantity = r.items[k].quantity
                               /\ d.unitPrice = Named(r.items[k], products).price
                 /\ call[c].pc = "failed" =>
                        own.purchases = {} /\ own.orderDetails = {} /\ tx[c] = NoTx
                 /\ \A row \in tx[c].purchases : row.id = call[c].purchaseId
                 /\ \A d \in tx[c].orderDetails :
                        d.purchaseId = call[c].purchaseId /\ tx[c].purchases # {}
                 /\ \A o \in Callers \ {c} :
                        call[c].purchaseId # 0 => call[o].purchaseId # call[c].purchaseId)
    /\ [][\A c \in Callers : \A o \in Callers \ {c} :
             call'[c] # call[c] =>
                 /\ call'[o] = call[o]
                 /\ tx'[o] = tx[o]
                 /\ RowsOf(call[o].purchaseId, purchases', orderDetails')
                        = RowsOf(call[o].purchaseId, purchases, orderDetails)]_vars

\* C26 witness: two calls for the same product; the one that wrote its header
\* first failed at the gateway after writing its lines, the other is committed
\* with its rows
C26_Witness ==
    \E c \in Callers : \E o \in Callers :
        /\ call[c].pc = "done"
        /\ call[o].raised = ErrGateway
        /\ call[o].purchaseId # 0
        /\ call[o].purchaseId < call[c].purchaseId
        /\ call[o].request.items[1].productId = call[c].request.items[1].productId
        /\ Cardinality(purchases) = 1
        /\ Cardinality(orderDetails) = Len(call[c].request.items)


\* C27: whenever a createPurchase writes its header or a line, every product
\* of its cart exists in the catalogue and is available at that moment, also
\* when the catalogue is edited while the call runs.
C27_WritesOnlyLiveProducts ==
    [][\A c \in Callers :
           (call[c].pc \in {"header", "details"} /\ call'[c].writes > call[c].writes) =>
               \A k \in 1..Len(call[c].request.items) :
                   \E p \in products :
                       /\ p.id = call[c].request.items[k].productId
                       /\ p.status = "available"]_vars

\* a Purchase is committed whose lines were written after its product had left
\* the catalogue
C27_SoldAfterDelete ==
    /\ call["c1"].pc = "done"
    /\ ~soldThenEdited
    /\ catalogOps = 1
    /\ \E d \in orderDetails : \A p \in products : p.name # d.productName


\* C28: every committed Purchase has a non-empty preference id that equals its
\* transaction id.
C28_TransactionIdCopiesAgree ==
    \A p \in purchases :
        p.preferenceId # 0 /\ p.preferenceId = p.wompiTransactionId


\* the invocation k asks for an email that another client of the table holds
EmailInUse(k) ==
    /\ k.op \in {"create", "update"}
    /\ "email" \in DOMAIN k.data
    /\ \E r \in clients : r.email = k.data.email /\ r.id # k.id
    /\ k.op = "update" => \E r \in clients : r.id = k.id

\* C29: under any interleaving of createClient, updateClient and deleteClient
\* no two clients share an email, and a call that is rejected because the email
\* it asks for is in use fails with ConflictError and leaves the clients as
\* they were.
C29_EmailsUniqueConflictReported ==
    /\ [](\A a \in clients : \A b \in clients : a.id # b.id => a.email # b.email)
    /\ [][\A c \in Callers :
             (/\ clientCall[c].pc # "failed"
              /\ clientCall'[c].pc = "failed"
              /\ EmailInUse(clientCall'[c])) =>
                 /\ clientCall'[c].error.type = "ConflictError"
                 /\ clients' = clients]_vars

\* no two clients share an email
C29_EmailsUnique ==
    \A a \in clients : \A b \in clients : a.id # b.id => a.email # b.email

\* two createClient calls for one email ran side by side: one is stored, the
\* other was rejected by the unique index
C29_RaceRejectedByIndex ==
    \E c \in Callers : \E o \in Callers :
        /\ clientCall[c].op = "create"
        /\ clientCall[c].pc = "failed"
        /\ clientCall[c].error = PrismaError("P2002")
        /\ clientCall[o].op = "create"
        /\ clientCall[o].pc = "done"
        /\ clientCall[o].data.email = clientCall[c].data.email

-----------------------------------------------------------------------------
(* C30 *)

\* every stored quote has a service and a totalAmount (hundredths) equal to
\* the sum of value x quantity over its stored services (thousandths)
QuotesConsistent ==
    \A q \in quotes :
        /\ Len(q.services) >= 1
        /\ q.totalAmount * 10 = servicesTotal(q.services)

\* the same, the sum taken at the two decimals the column keeps
QuotesConsistentAtScale2 ==
    \A q \in quotes :
        /\ Len(q.services) >= 1
        /\ q.totalAmount = decimalScale2(servicesTotal(q.services))

\* a step of a quote invocation that updates without services keeps the
\* services and the totalAmount of every quote; one that ends an invocation
\* given an empty list, a missing client or a missing quote ends it failed,
\* and the store is as it was
QuoteCallKeepsStore ==
    /\ (quoteCall.op = "update" /\ ~Has(quoteCall.data, "services")
           /\ quoteCall' # quoteCall /\ clientCall' = clientCall)
          => quotes' = quotes
    /\ (quoteCall.pc = "idle" /\ quoteCall'.pc # "idle"
           /\ \/ (quoteCall'.op \in {"create", "update"}
                     /\ Has(quoteCall'.data, "services")
                     /\ quoteCall'.data.services = <<>>)
              \/ (quoteCall'.op = "create"
                     /\ \A r \in clients : r.id # quoteCall'.data.clientId)
              \/ (quoteCall'.op = "update"
                     /\ \A q \in quotes : q.id # quoteCall'.id))
          => /\ quoteCall'.pc = "failed"
             /\ quotes' = quotes
             /\ seqQuote' = seqQuote
    /\ (quoteCall.pc = "failed" /\ quoteCall' # quoteCall /\ clientCall' = clientCall)
          => quotes' = quotes

\* C30: after any sequence of createQuote, updateQuote and deleteQuote calls
\* every stored quote has at least one service and a totalAmount equal to the
\* sum of value x quantity over its stored services; an updateQuote without
\* services leaves services and totalAmount unchanged; a createQuote or
\* updateQuote with an empty services list, or for a missing client or quote,
\* fails and leaves the store unchanged
C30_QuoteTotalIsSumOfServices == [] QuotesConsistent /\ [][QuoteCallKeepsStore]_vars

\* what does hold: the total agrees with the sum at two decimals, and the
\* rejected and the service-less calls keep the store
C30_QuoteTotalAtScale2 == [] QuotesConsistentAtScale2 /\ [][QuoteCallKeepsStore]_vars

\* a quote whose services add up to an amount with a third decimal is stored
C30_ThirdDecimalStored ==
    \E q \in quotes : servicesTotal(q.services) % 10 # 0

\* an update without services was written to a stored quote
C30_UpdateWithoutServices ==
    /\ quoteCall.pc = "done" /\ quoteCall.op = "update"
    /\ ~Has(quoteCall.data, "services")
    /\ \E q \in quotes : q.id = quoteCall.id

====
